---- MODULE Spec2Model ----
(***************************************************************************)
(* Vital Planet Asset Hub: the scan-classify-index pipeline.               *)
(*                                                                         *)
(*   SpecSave  AssetScanner.save_index / _cleanup_old_backups and          *)
(*             AssetIndex.save_to_file on one output path, step by step,   *)
(*             with the failures each I/O call can raise.                  *)
(*   SpecLoad  AssetIndex.load_from_file / from_dict on a file of any      *)
(*             shape.                                                      *)
(*   SpecScan  AssetScanner.scan_multiple_directories and scan_directory:  *)
(*             the worker pool, the collection of results in completion    *)
(*             order, the merge over roots and the metadata.               *)
(*   SpecExtract, SpecCategory, SpecClassify, SpecGroup, SpecConfidence    *)
(*             the functions of FileAnalyzer, ProductInfo.group_3d_mockups *)
(*             and TemporalAnalyzer._calculate_confidence, each applied to *)
(*             an argument drawn from a bounded set.  Strings are tuples   *)
(*             of characters, so `in`, startswith and the regular          *)
(*             expressions are computed character by character.           *)
(*   SpecActivity  TemporalAnalyzer.analyze_file_activity: the activity    *)
(*             score and the recent-work flag of a file.                   *)
(*   SpecPool, SpecPoolFair  the executor of a scan: which tasks run when, *)
(*             and when the metadata is computed.                          *)
(*   SpecGrouped  AssetIndex.create_grouped_version for one product.       *)
(*   SpecUnder  classify_asset on absolute paths below different base      *)
(*             directories.                                                *)
(*   SpecSavers  two requests in save_index on the same output path.       *)
(***************************************************************************)
EXTENDS Integers, Sequences, FiniteSets, TLC

(***************************************************************************)
(* Bounds of the model.                                                    *)
(***************************************************************************)
\* save_index calls in one behaviour
MaxSaves == 7
\* wall-clock seconds that pass in one behaviour (backup names are seconds)
MaxClock == 5
\* product entries in the "products" object of a file given to load_from_file
MaxEntries == 2
\* entries of the `directories` list of scan_multiple_directories
MaxRoots == 2
\* subdirectories of one root
MaxDirs == 2
\* product directories of one root in the model of the worker pool
MaxTasks == 5

(***************************************************************************)
(* Program constants.                                                      *)
(***************************************************************************)
\* _cleanup_old_backups(backup_dir, max_backups=5)
max_backups == 5
\* settings.CONCURRENT_THREADS, the max_workers of every executor
CONCURRENT_THREADS == 4

VARIABLES
    \* ---- persistence (SpecSave) ----
    now,          \* the wall clock, in whole seconds (datetime.now())
    mclock,       \* the last modification time the filesystem handed out
    primary,      \* the file at output_path
    backups,      \* backups/assets_index_<second>.json, by second
    spc,          \* where save_index is
    sidx,         \* the index being saved (numbered by call)
    sprior,       \* the file that was at output_path when save_index was called
    sname,        \* the <timestamp> of this call's backup_path
    sbacked,      \* shutil.copy2 returned in this call
    ncalls,       \* save_index calls so far
    nfailed,      \* save_index calls that raised
    \* ---- loading (SpecLoad) ----
    file,         \* the file at the path given to load_from_file
    loaded,       \* what load_from_file did: nothing yet, a return or a raise
    \* ---- scanning (SpecScan) ----
    scan_mode,    \* AssetScanner(scan_mode=...)
    pc,           \* where the scan is
    entry,        \* the method called: scan_multiple_directories or scan_directory
    dir_key,      \* the root being scanned
    nroots,       \* entries of `directories` gone through so far
    tasks,        \* the futures of the executor, one per product directory
    products,     \* the dict built from the completed futures of one root
    all_products, \* the dict merged over the roots
    stats,        \* self.stats
    index,        \* the AssetIndex returned
    \* history of the scan, kept for the claims (no code reads it)
    clean,        \* `products` had no processing raised (same completion order)
    clean_all,    \* `all_products` had no processing raised
    nraised,      \* product directories whose processing raised
    nmissing,     \* entries of `directories` whose directory did not exist
    nfrom,        \* per code, the roots that produced it so far (2: two or more)
    last_from,    \* per code, what the latest of these roots returned, and its key
    \* ---- the functions of FileAnalyzer, ProductInfo, TemporalAnalyzer ----
    arg,          \* the argument of the call
    ret,          \* whether the call has returned, and what
    \* ---- the worker pool of a scan (SpecPool) ----
    ppc,          \* where scan_multiple_directories is
    todo,         \* entries of `directories` not gone through yet
    queue,        \* the futures of the executor of the root being scanned
    metas,        \* how many times the scan metadata has been computed
    \* ---- concurrent save_index calls on one output path (SpecSavers) ----
    cpc,          \* per request, where its save_index is
    cname,        \* per request, the <timestamp> of its backup_path
    dirty         \* per request, whether another request truncated or wrote
                  \* the output file while this one had it open

saveVars == <<now, mclock, primary, backups, spc, sidx, sprior, sname, sbacked,
              ncalls, nfailed>>

loadVars == <<file, loaded>>

scanVars == <<scan_mode, pc, entry, dir_key, nroots, tasks, products,
              all_products, stats, index, clean, clean_all, nraised, nmissing,
              nfrom, last_from>>

analysisVars == <<arg, ret>>

poolVars == <<ppc, todo, queue, metas>>

saverVars == <<cpc, cname, dirty>>

vars == <<saveVars, loadVars, scanVars, analysisVars, poolVars, saverVars>>

\* what an action of one part leaves alone: the variables of the other parts
notSave == <<loadVars, scanVars, analysisVars, poolVars, saverVars>>
notLoad == <<saveVars, scanVars, analysisVars, poolVars, saverVars>>
notScan == <<saveVars, loadVars, analysisVars, poolVars, saverVars>>
notAnalysis == <<saveVars, loadVars, scanVars, poolVars, saverVars>>
notPool == <<saveVars, loadVars, scanVars, analysisVars, saverVars>>

(***************************************************************************)
(* Files.  A file is the document it was written from (doc, the number of  *)
(* the save_index call), how much of it is there, and its st_mtime.        *)
(*   part = "full"     the complete json.dump of the index                 *)
(*   part = "partial"  open(path, 'w') truncated it and json.dump has not  *)
(*                     finished (or failed part-way)                       *)
(*   part = "torn"     what a failed shutil.copyfile left at the           *)
(*                     destination                                         *)
(***************************************************************************)
NoFile == [doc |-> 0, part |-> "none", mtime |-> 0]

Exists(f) == f.part # "none"

\* the bytes of two files are the same
SameContent(f, g) == f.doc = g.doc /\ f.part = g.part /\ f.part # "torn"

Seconds == 0..MaxClock

\* backup_dir.glob("assets_index_*.json")
backup_files == {n \in Seconds : Exists(backups[n])}

\* no pool is run and no concurrent requests are made
PoolUnused ==
    /\ ppc = ""
    /\ todo = 0
    /\ queue = <<>>
    /\ metas = 0

SaversUnused ==
    /\ cpc = <<>>
    /\ cname = <<>>
    /\ dirty = <<>>

\* no save_index call yet, no index and no backups
SaveIdle ==
    /\ now = 0
    /\ mclock = 0
    /\ primary = NoFile
    /\ backups = [n \in Seconds |-> NoFile]
    /\ spc = "idle"
    /\ sidx = 0
    /\ sprior = NoFile
    /\ sname = 0
    /\ sbacked = FALSE
    /\ ncalls = 0
    /\ nfailed = 0

\* load_from_file is not called
LoadUnused ==
    /\ file = <<>>
    /\ loaded = <<>>

\* no scan is run
ScanUnused ==
    /\ scan_mode = ""
    /\ pc = "unused"
    /\ entry = ""
    /\ dir_key = ""
    /\ nroots = 0
    /\ tasks = <<>>
    /\ products = <<>>
    /\ all_products = <<>>
    /\ stats = <<>>
    /\ index = <<>>
    /\ clean = <<>>
    /\ clean_all = <<>>
    /\ nraised = 0
    /\ nmissing = 0
    /\ nfrom = <<>>
    /\ last_from = <<>>

\* none of the functions is called
AnalysisUnused ==
    /\ arg = <<>>
    /\ ret = <<>>

InitSave ==
    /\ PoolUnused
    /\ SaversUnused
    /\ SaveIdle
    /\ AnalysisUnused
    /\ LoadUnused
    /\ ScanUnused

\* a second passes on the wall clock (save_index reads the clock once, when it
\* is called, so time that passes during a call is time that passed after it)
Tick ==
    /\ spc \in {"idle", "returned", "raised"}
    /\ now < MaxClock
    /\ now' = now + 1
    /\ UNCHANGED <<mclock, primary, backups, spc, sidx, sprior, sname, sbacked,
                   ncalls, nfailed>>
    /\ UNCHANGED notSave

\* save_index(asset_index) is called: output_path.exists() decides whether a
\* backup is made; the timestamp is datetime.now() to the second.
SaveBegin ==
    /\ spc \in {"idle", "returned", "raised"}
    /\ ncalls < MaxSaves
    /\ ncalls' = ncalls + 1
    /\ sidx' = ncalls + 1
    /\ sprior' = primary
    /\ sname' = now
    /\ sbacked' = FALSE
    /\ spc' = IF Exists(primary) THEN "backup" ELSE "open"
    /\ UNCHANGED <<now, mclock, primary, backups, nfailed>>
    /\ UNCHANGED notSave

\* shutil.copy2(output_path, backup_path): the content and, by copystat, the
\* modification time of the source; an existing file of that name is replaced.
BackupCopy ==
    /\ spc = "backup"
    /\ backups' = [backups EXCEPT ![sname] = primary]
    /\ sbacked' = TRUE
    /\ spc' = "cleanup"
    /\ UNCHANGED <<now, mclock, primary, sidx, sprior, sname, ncalls, nfailed>>
    /\ UNCHANGED notSave

\* mkdir or copy2 raises: save_index logs and re-raises.  copyfile may have
\* created or truncated the destination already; it does not remove it, and
\* copystat has not run, so what is left carries a fresh modification time.
BackupFail ==
    /\ spc = "backup"
    /\ \E left \in BOOLEAN :
          IF left
          THEN /\ mclock' = mclock + 1
               /\ backups' = [backups EXCEPT ![sname] =
                                [doc |-> primary.doc, part |-> "torn",
                                 mtime |-> mclock + 1]]
          ELSE UNCHANGED <<mclock, backups>>
    /\ spc' = "raised"
    /\ nfailed' = nfailed + 1
    /\ UNCHANGED <<now, primary, sidx, sprior, sname, sbacked, ncalls>>
    /\ UNCHANGED notSave

\* backup_files.sort(key=st_mtime, reverse=True)[:max_backups] of a glob in
\* directory order: any max_backups files none of which is older than a file
\* that is not kept (the sort is stable, the glob order is the directory's).
KeptByCleanup(K) ==
    /\ K \subseteq backup_files
    /\ Cardinality(K) = max_backups
    /\ \A k \in K : \A d \in backup_files \ K :
           backups[k].mtime >= backups[d].mtime

\* _cleanup_old_backups(backup_dir)
CleanupOldBackups ==
    /\ spc = "cleanup"
    /\ IF Cardinality(backup_files) > max_backups
       THEN \E K \in SUBSET backup_files :
               /\ KeptByCleanup(K)
               /\ backups' = [n \in Seconds |->
                                IF n \in K THEN backups[n] ELSE NoFile]
       ELSE UNCHANGED backups
    /\ spc' = "open"
    /\ UNCHANGED <<now, mclock, primary, sidx, sprior, sname, sbacked, ncalls,
                   nfailed>>
    /\ UNCHANGED notSave

\* _cleanup_old_backups raises (glob, stat or the first unlink): the except
\* clause logs a warning and save_index goes on.
CleanupFails ==
    /\ spc = "cleanup"
    /\ Cardinality(backup_files) > max_backups
    /\ spc' = "open"
    /\ UNCHANGED <<now, mclock, primary, backups, sidx, sprior, sname, sbacked,
                   ncalls, nfailed>>
    /\ UNCHANGED notSave

\* save_to_file: open(file_path, 'w') creates or truncates the file in place
OpenForWriting ==
    /\ spc = "open"
    /\ mclock' = mclock + 1
    /\ primary' = [doc |-> sidx, part |-> "partial", mtime |-> mclock + 1]
    /\ spc' = "write"
    /\ UNCHANGED <<now, backups, sidx, sprior, sname, sbacked, ncalls, nfailed>>
    /\ UNCHANGED notSave

\* open(file_path, 'w') raises (the file is not writable): nothing is changed
OpenFails ==
    /\ spc = "open"
    /\ spc' = "raised"
    /\ nfailed' = nfailed + 1
    /\ UNCHANGED <<now, mclock, primary, backups, sidx, sprior, sname, sbacked,
                   ncalls>>
    /\ UNCHANGED notSave

\* json.dump(self.to_dict(), f, ...) and the close of the file
WriteDone ==
    /\ spc = "write"
    /\ mclock' = mclock + 1
    /\ primary' = [doc |-> sidx, part |-> "full", mtime |-> mclock + 1]
    /\ spc' = "returned"
    /\ UNCHANGED <<now, backups, sidx, sprior, sname, sbacked, ncalls, nfailed>>
    /\ UNCHANGED notSave

\* json.dump raises part-way (disk full, I/O error): what was written stays
WriteFails ==
    /\ spc = "write"
    /\ spc' = "raised"
    /\ nfailed' = nfailed + 1
    /\ UNCHANGED <<now, mclock, primary, backups, sidx, sprior, sname, sbacked,
                   ncalls>>
    /\ UNCHANGED notSave

NextSave ==
    \/ Tick
    \/ SaveBegin
    \/ BackupCopy
    \/ BackupFail
    \/ CleanupOldBackups
    \/ CleanupFails
    \/ OpenForWriting
    \/ OpenFails
    \/ WriteDone
    \/ WriteFails

SpecSave == InitSave /\ [][NextSave]_vars

(***************************************************************************)
(* Claims about save_index.                                                *)
(***************************************************************************)

\* C2 (as claimed): whenever save_index is called while a file is at the output
\* path, then at the moment the output file is about to be opened for writing a
\* backup file holding exactly the prior content exists, and the prior file is
\* still at the output path (copied, not moved).
C2_BackupBeforeWrite ==
    (spc = "open" /\ Exists(sprior)) =>
        /\ primary = sprior
        /\ \E n \in backup_files : SameContent(backups[n], sprior)

\* C3 (as claimed): after N > 5 successive save_index calls on one output path,
\* starting from no index and no backups, exactly 5 backup files remain, the
\* copies of the 5 most recently overwritten indexes.
C3_FiveBackupsRemain ==
    (spc = "returned" /\ nfailed = 0 /\ ncalls > max_backups) =>
        /\ Cardinality(backup_files) = max_backups
        /\ {backups[n].doc : n \in backup_files}
               = (ncalls - max_backups)..(ncalls - 1)
        /\ \A n \in backup_files : backups[n].part = "full"

\* C4 (as claimed): at every point during and after a save_index call the file
\* at the output path holds a complete index (the previous or the new one),
\* never a truncated or partial document.
C4_PrimaryNeverPartial ==
    Exists(primary) => primary.part = "full"

\* C5 (as claimed): if writing the new index fails after the backup copy of the
\* previous index succeeded, save_index raises and the backup file made in that
\* call still exists with the previous index's complete content.
C5_BackupSurvivesWriteFailure ==
    (spc = "raised" /\ sbacked) =>
        /\ Exists(backups[sname])
        /\ SameContent(backups[sname], sprior)

\* C29: a save_index call that finds an index never overwrites an existing
\* backup, whatever the timing of the saves: after any sequence of saves
\* none of which failed, each of the last min(5, number of overwritten
\* indexes) overwritten indexes is in the backups directory, complete.
C29_OverwrittenIndexesKept ==
    (spc = "returned" /\ nfailed = 0) =>
        \A k \in 1..(ncalls - 1) :
            k >= ncalls - max_backups =>
                \E n \in backup_files :
                    backups[n].doc = k /\ backups[n].part = "full"

(***************************************************************************)
(* AssetIndex.load_from_file and from_dict.                                *)
(*                                                                         *)
(* A file is described by what the loader looks at, in the order it looks: *)
(*   kind      "absent"   no file at the path                              *)
(*             "text"     bytes that are not a JSON document (empty, a     *)
(*                        truncated dump, anything else)                   *)
(*             "value"    a JSON document that is not an object            *)
(*             "object"   a JSON object                                    *)
(*   metadata  the "metadata" member: "missing", "nonmapping",             *)
(*             "missing_field" / "extra_field" (not the fields of          *)
(*             ScanMetadata), "no_version" (all but the defaulted one),    *)
(*             "ok"                                                        *)
(*   products  the "products" member: "missing", "nonmapping", "mapping"   *)
(*   entries   the values of "products", in file order: "ok",              *)
(*             "no_assets" (no "assets" key), "no_code" (a required key    *)
(*             is missing), "nonmapping", "bad_asset" (an asset that does  *)
(*             not have the fields of AssetInfo)                           *)
(***************************************************************************)
MetadataShapes ==
    {"missing", "nonmapping", "missing_field", "extra_field", "no_version", "ok"}

EntryShapes == {"ok", "no_assets", "no_code", "nonmapping", "bad_asset"}

EntryLists == UNION {[1..n -> EntryShapes] : n \in 0..MaxEntries}

IndexFiles ==
    {[kind |-> "absent", metadata |-> "missing", products |-> "missing",
      entries |-> <<>>]}
    \cup {[kind |-> k, metadata |-> "missing", products |-> "missing",
           entries |-> <<>>] : k \in {"text", "value"}}
    \cup {[kind |-> "object", metadata |-> m, products |-> p, entries |-> <<>>] :
              m \in MetadataShapes, p \in {"missing", "nonmapping"}}
    \cup {[kind |-> "object", metadata |-> m, products |-> "mapping",
           entries |-> e] : m \in MetadataShapes, e \in EntryLists}

Raise(e) == [outcome |-> "raise", error |-> e, nproducts |-> 0]

Return(n) == [outcome |-> "index", error |-> "", nproducts |-> n]

NotLoaded == [outcome |-> "none", error |-> "", nproducts |-> 0]

\* ProductInfo.from_dict(product_data): the assets are built first
\* (data.get('assets', [])), then the required keys are read; "" is no error.
ProductFromDict(product_data) ==
    CASE product_data = "nonmapping" -> "AttributeError"
      [] product_data = "bad_asset"  -> "TypeError"
      [] product_data = "no_code"    -> "KeyError"
      [] OTHER                -> ""

\* the error of the first entry that raises, in the order of the file
RECURSIVE ProductsFromDict(_)
ProductsFromDict(entries) ==
    IF entries = <<>> THEN ""
    ELSE IF ProductFromDict(Head(entries)) # ""
         THEN ProductFromDict(Head(entries))
         ELSE ProductsFromDict(Tail(entries))

\* AssetIndex.from_dict(data) for a JSON object
from_dict(f) ==
    CASE f.metadata = "missing" -> Raise("KeyError")
      [] f.metadata \in {"nonmapping", "missing_field", "extra_field"} ->
             Raise("TypeError")
      [] OTHER ->
             CASE f.products = "missing"    -> Return(0)
               [] f.products = "nonmapping" -> Raise("AttributeError")
               [] OTHER ->
                      IF ProductsFromDict(f.entries) # ""
                      THEN Raise(ProductsFromDict(f.entries))
                      ELSE Return(Len(f.entries))

\* AssetIndex.load_from_file(file_path): open, json.load (a ValueError:
\* json.JSONDecodeError, or UnicodeDecodeError), from_dict
load_from_file(f) ==
    CASE f.kind = "absent" -> Raise("FileNotFoundError")
      [] f.kind = "text"   -> Raise("ValueError")
      [] f.kind = "value"  -> Raise("TypeError")
      [] OTHER             -> from_dict(f)

InitLoad ==
    /\ PoolUnused
    /\ SaversUnused
    /\ SaveIdle
    /\ AnalysisUnused
    /\ ScanUnused
    /\ file \in IndexFiles
    /\ loaded = NotLoaded

LoadFromFile ==
    /\ loaded = NotLoaded
    /\ loaded' = load_from_file(file)
    /\ UNCHANGED file
    /\ UNCHANGED notLoad

NextLoad ==
    \/ LoadFromFile

SpecLoad == InitLoad /\ [][NextLoad]_vars

(***************************************************************************)
(* Claims about load_from_file.                                            *)
(***************************************************************************)

\* a file that is there and is not a JSON object with a "metadata" and a
\* "products" member (the document of the persisted artifact)
Malformed(f) ==
    /\ f.kind # "absent"
    /\ ~(f.kind = "object" /\ f.metadata # "missing" /\ f.products # "missing")

\* C6: load_from_file never returns an index for an absent or a
\* malformed file; it raises in both cases, and the error for an absent file
\* differs from the error for a malformed one.
C6_LoadFailsOnAbsentOrMalformed ==
    (loaded # NotLoaded) =>
        /\ file.kind = "absent" =>
               loaded.outcome = "raise" /\ loaded.error = "FileNotFoundError"
        /\ Malformed(file) =>
               loaded.outcome = "raise" /\ loaded.error # "FileNotFoundError"

(***************************************************************************)
(* AssetScanner.scan_multiple_directories and scan_directory.              *)
(*                                                                         *)
(* The tree is read as the scan reads it: the keys of `directories` one by *)
(* one, a root's subdirectories when it is listed, a product directory's   *)
(* name and files when its task runs.                                      *)
(***************************************************************************)
\* settings.SCAN_DIRECTORIES
RootKeys == {"human_current", "human_wip", "pet_current", "pet_wip"}

\* the scan modes a scanner is built with: a key, "all", or anything else
ScanModes == RootKeys \cup {"all", "other"}

\* the 5-digit codes of the product folders
Codes == {"10001", "10002"}

\* `word in dir_key`, for the words the merge looks for
KeyContains(key, word) ==
    CASE word = "human"   -> key \in {"human_current", "human_wip"}
      [] word = "current" -> key \in {"human_current", "pet_current"}
      [] OTHER            -> FALSE

NoProduct ==
    [code |-> "", folder_path |-> <<>>, assets |-> <<>>,
     directory_source |-> "", product_line |-> "", status |-> ""]

\* ProductInfo(code=..., folder_path=str(directory), assets=assets), with the
\* defaults of the dataclass for the three fields the constructor is not given.
\* A folder is the root it lies in and its place there; the assets are the
\* files that are not "Excluded", sorted.
ProductInfo(code, folder, nassets) ==
    [code |-> code, folder_path |-> folder, assets |-> [i \in 1..nassets |-> i],
     directory_source |-> "human_current", product_line |-> "Human",
     status |-> "Current"]

\* product.directory_source = dir_key, product_line and status from the key
Stamped(product, key) ==
    [product EXCEPT
        !.directory_source = key,
        !.product_line = IF KeyContains(key, "human") THEN "Human" ELSE "Pet",
        !.status = IF KeyContains(key, "current") THEN "Current"
                   ELSE "Work in Progress"]

EmptyDict == [c \in Codes |-> NoProduct]

\* the keys of a dict
Keys(d) == {c \in Codes : d[c] # NoProduct}

RECURSIVE SumAssets(_, _)
SumAssets(d, cs) ==
    IF cs = {} THEN 0
    ELSE LET c == CHOOSE x \in cs : TRUE
         IN  Len(d[c].assets) + SumAssets(d, cs \ {c})

\* the metadata taken from the running counter instead of len(products)
AssetIndexFromStats(d) ==
    [total_products |-> stats.products_processed,
     total_assets |-> SumAssets(d, Keys(d)),
     products |-> d]

\* ScanMetadata(total_products=len(d), total_assets=sum(len(p.assets) ...))
\* and AssetIndex(metadata, products)
AssetIndex(d) ==
    [total_products |-> Cardinality(Keys(d)),
     total_assets |-> SumAssets(d, Keys(d)),
     products |-> d]

NoIndex == [total_products |-> 0, total_assets |-> 0, products |-> <<>>]

\* the files below the d-th subdirectory of a root: d files, of which the
\* first is one that _should_include_file or classify_asset leaves out
file_count(d) == d

asset_count(d) == d - 1

\* a future: submitted, "adding" (the worker is inside
\* self.stats['files_scanned'] += file_count, having read the counter), done,
\* collected (as_completed has yielded it).  product: the directory name
\* matched the product pattern; raised: its processing raised.
Submitted ==
    [st |-> "submitted", product |-> FALSE, raised |-> FALSE, code |-> "",
     files |-> 0, assets |-> 0, tmp |-> 0]

\* what _process_product_directory returned: a ProductInfo or None
Returned(t, key, d) ==
    IF t.product /\ ~t.raised
    THEN ProductInfo(t.code, <<key, d>>, t.assets)
    ELSE NoProduct

\* what it would have returned had its processing not raised
ReturnedClean(t, key, d) ==
    IF t.product THEN ProductInfo(t.code, <<key, d>>, t.assets) ELSE NoProduct

NoClean == [p |-> NoProduct, ok |-> TRUE]

EmptyClean == [c \in Codes |-> NoClean]

\* self._get_source_directory(): the root scan_directory scans
SourceKey ==
    IF scan_mode = "all" THEN "base"
    ELSE IF scan_mode \in RootKeys THEN scan_mode
    ELSE "human_current"

InitScan ==
    /\ PoolUnused
    /\ SaversUnused
    /\ SaveIdle
    /\ AnalysisUnused
    /\ LoadUnused
    /\ scan_mode \in ScanModes
    /\ pc = "idle"
    /\ entry = ""
    /\ dir_key = ""
    /\ nroots = 0
    /\ tasks = <<>>
    /\ products = EmptyDict
    /\ all_products = EmptyDict
    /\ stats = [products_processed |-> 0, files_scanned |-> 0,
                errors_encountered |-> 0]
    /\ index = NoIndex
    /\ clean = EmptyClean
    /\ clean_all = EmptyClean
    /\ nraised = 0
    /\ nmissing = 0
    /\ nfrom = [c \in Codes |-> 0]
    /\ last_from = [c \in Codes |-> [p |-> NoProduct, key |-> ""]]

\* scan_multiple_directories(directories) is called
ScanMultipleDirectories ==
    /\ pc = "idle"
    /\ pc' = "roots"
    /\ entry' = "multi"
    /\ UNCHANGED <<scan_mode, dir_key, nroots, tasks, products, all_products,
                   stats, index, clean, clean_all, nraised, nfrom, last_from>>
    /\ UNCHANGED nmissing
    /\ UNCHANGED notScan

\* the next dir_key is not in settings.SCAN_DIRECTORIES: warning, continue
UnknownKey ==
    /\ pc = "roots"
    /\ nroots < MaxRoots
    /\ nroots' = nroots + 1
    /\ dir_key' = "unknown"
    /\ UNCHANGED <<scan_mode, pc, entry, tasks, products, all_products, stats,
                   index, clean, clean_all, nraised, nfrom, last_from>>
    /\ UNCHANGED nmissing
    /\ UNCHANGED notScan

\* a loop over `directories` that gives up at the first missing directory
MissingRootAborting ==
    /\ pc = "roots"
    /\ nroots < MaxRoots
    /\ nroots' = nroots + 1
    /\ \E key \in RootKeys : dir_key' = key
    /\ index' = AssetIndex(all_products)
    /\ pc' = "done"
    /\ nmissing' = nmissing + 1
    /\ UNCHANGED <<scan_mode, entry, tasks, products, all_products, stats,
                   clean, clean_all, nraised, nfrom, last_from>>
    /\ UNCHANGED notScan

\* dir_path does not exist: warning, continue
MissingRoot ==
    /\ pc = "roots"
    /\ nroots < MaxRoots
    /\ nroots' = nroots + 1
    /\ \E key \in RootKeys : dir_key' = key
    /\ UNCHANGED <<scan_mode, pc, entry, tasks, products, all_products, stats,
                   index, clean, clean_all, nraised, nfrom, last_from>>
    /\ nmissing' = nmissing + 1
    /\ UNCHANGED notScan

\* _scan_single_directory(dir_path, dir_key): directory.iterdir() raises, the
\* outer except logs it and the empty dict is returned and merged
ListingFails ==
    /\ pc = "roots"
    /\ nroots < MaxRoots
    /\ nroots' = nroots + 1
    /\ \E key \in RootKeys : dir_key' = key
    /\ UNCHANGED <<scan_mode, pc, entry, tasks, products, all_products, stats,
                   index, clean, clean_all, nraised, nfrom, last_from>>
    /\ UNCHANGED nmissing
    /\ UNCHANGED notScan

\* _scan_single_directory(dir_path, dir_key): the subdirectories are listed and
\* one task per subdirectory is submitted to the executor
ScanSingleDirectory ==
    /\ pc = "roots"
    /\ nroots < MaxRoots
    /\ nroots' = nroots + 1
    /\ \E key \in RootKeys : dir_key' = key
    /\ \E n \in 0..MaxDirs : tasks' = [d \in 1..n |-> Submitted]
    /\ products' = EmptyDict
    /\ clean' = EmptyClean
    /\ pc' = "pool"
    /\ UNCHANGED <<scan_mode, entry, all_products, stats, index, clean_all,
                   nraised, nfrom, last_from>>
    /\ UNCHANGED nmissing
    /\ UNCHANGED notScan

\* scan_directory() is called and self.source_dir does not exist
ScanDirectoryMissing ==
    /\ pc = "idle"
    /\ pc' = "raised"
    /\ entry' = "single"
    /\ dir_key' = SourceKey
    /\ UNCHANGED <<scan_mode, nroots, tasks, products, all_products, stats,
                   index, clean, clean_all, nraised, nfrom, last_from>>
    /\ UNCHANGED nmissing
    /\ UNCHANGED notScan

\* scan_directory(): self.source_dir.iterdir() raises, the except re-raises
ScanDirectoryListingFails ==
    /\ pc = "idle"
    /\ pc' = "raised"
    /\ entry' = "single"
    /\ dir_key' = SourceKey
    /\ UNCHANGED <<scan_mode, nroots, tasks, products, all_products, stats,
                   index, clean, clean_all, nraised, nfrom, last_from>>
    /\ UNCHANGED nmissing
    /\ UNCHANGED notScan

\* scan_directory(): the subdirectories of self.source_dir are listed and one
\* task per subdirectory is submitted (without a dir_key)
ScanDirectory ==
    /\ pc = "idle"
    /\ pc' = "pool"
    /\ entry' = "single"
    /\ dir_key' = SourceKey
    /\ \E n \in 0..MaxDirs : tasks' = [d \in 1..n |-> Submitted]
    /\ UNCHANGED <<scan_mode, nroots, products, all_products, stats, index,
                   clean, clean_all, nraised, nfrom, last_from>>
    /\ UNCHANGED nmissing
    /\ UNCHANGED notScan

\* _process_product_directory: extract_product_info(directory.name) is None
ProcessNonProduct(d) ==
    /\ pc = "pool"
    /\ d \in DOMAIN tasks
    /\ tasks[d].st = "submitted"
    /\ tasks' = [tasks EXCEPT ![d].st = "done"]
    /\ UNCHANGED <<scan_mode, pc, entry, dir_key, nroots, products,
                   all_products, stats, index, clean, clean_all, nraised,
                   nfrom, last_from>>
    /\ UNCHANGED nmissing
    /\ UNCHANGED notScan

\* _process_product_directory: the name gives a code, the files below the
\* directory are walked and classified; self.stats['files_scanned'] is read
ProcessProduct(d) ==
    /\ pc = "pool"
    /\ d \in DOMAIN tasks
    /\ tasks[d].st = "submitted"
    /\ \E code \in Codes : \E nf \in {file_count(d)} :
       \E na \in {asset_count(d)} :
          tasks' = [tasks EXCEPT ![d] =
                      [st |-> "adding", product |-> TRUE, raised |-> FALSE,
                       code |-> code, files |-> nf, assets |-> na,
                       tmp |-> stats.files_scanned]]
    /\ UNCHANGED <<scan_mode, pc, entry, dir_key, nroots, products,
                   all_products, stats, index, clean, clean_all, nraised,
                   nfrom, last_from>>
    /\ UNCHANGED nmissing
    /\ UNCHANGED notScan

\* self.stats['files_scanned'] += file_count is stored; the ProductInfo is built
AddFilesScanned(d) ==
    /\ pc = "pool"
    /\ d \in DOMAIN tasks
    /\ tasks[d].st = "adding"
    /\ stats' = [stats EXCEPT !.files_scanned = tasks[d].tmp + tasks[d].files]
    /\ tasks' = [tasks EXCEPT ![d].st = "done", ![d].tmp = 0]
    /\ UNCHANGED <<scan_mode, pc, entry, dir_key, nroots, products,
                   all_products, index, clean, clean_all, nraised, nfrom,
                   last_from>>
    /\ UNCHANGED nmissing
    /\ UNCHANGED notScan

\* _process_product_directory: the name gives a code and the walk of the
\* directory raises (I/O or permission error): the except clause of
\* _process_product_directory logs it and returns None
ProcessRaises(d) ==
    /\ pc = "pool"
    /\ d \in DOMAIN tasks
    /\ tasks[d].st = "submitted"
    /\ \E code \in Codes : \E nf \in {file_count(d)} :
       \E na \in {asset_count(d)} :
          tasks' = [tasks EXCEPT ![d] =
                      [st |-> "done", product |-> TRUE, raised |-> TRUE,
                       code |-> code, files |-> nf, assets |-> na, tmp |-> 0]]
    /\ nraised' = nraised + 1
    /\ UNCHANGED <<scan_mode, pc, entry, dir_key, nroots, products,
                   all_products, stats, index, clean, clean_all, nfrom,
                   last_from>>
    /\ UNCHANGED nmissing
    /\ UNCHANGED notScan

\* a collection loop in which a task without a product discards what the
\* loop has gathered
CollectResultDiscarding(r) ==
    IF r # NoProduct
    THEN /\ products' = [products EXCEPT ![r.code] = r]
         /\ stats' = [stats EXCEPT
                         !.products_processed = stats.products_processed + 1]
    ELSE /\ products' = EmptyDict
         /\ UNCHANGED stats

\* the body of `for future in as_completed(future_to_dir)` for a result r:
\* future.result() returns what the task returned (the task catches every
\* Exception itself, so result() has none to re-raise)
CollectResult(r) ==
    IF r # NoProduct
    THEN /\ products' = [products EXCEPT ![r.code] = r]
         /\ stats' = [stats EXCEPT
                         !.products_processed = stats.products_processed + 1]
    ELSE UNCHANGED <<products, stats>>

\* as_completed yields a finished future
Collect(d) ==
    /\ pc = "pool"
    /\ d \in DOMAIN tasks
    /\ tasks[d].st = "done"
    /\ CollectResult(Returned(tasks[d], dir_key, d))
    /\ clean' = IF tasks[d].product
                THEN [clean EXCEPT ![tasks[d].code] =
                        [p |-> ReturnedClean(tasks[d], dir_key, d),
                         ok |-> ~tasks[d].raised]]
                ELSE clean
    /\ tasks' = [tasks EXCEPT ![d] = [Submitted EXCEPT !.st = "collected"]]
    /\ UNCHANGED <<scan_mode, pc, entry, dir_key, nroots, all_products, index,
                   clean_all, nraised, nfrom, last_from>>
    /\ UNCHANGED nmissing
    /\ UNCHANGED notScan

AllCollected == \A d \in DOMAIN tasks : tasks[d].st = "collected"

\* a merge that keeps the entry a code already has
MergeProductsKeepingFirst(all, prods, key) ==
    [c \in Codes |-> IF prods[c] # NoProduct /\ all[c] = NoProduct
                     THEN Stamped(prods[c], key)
                     ELSE all[c]]

\* the merge loop of scan_multiple_directories over products.items():
\* the product is stamped and all_products[code] = product
MergeProducts(all, prods, key) ==
    [c \in Codes |-> IF prods[c] # NoProduct THEN Stamped(prods[c], key)
                     ELSE all[c]]

\* _scan_single_directory returns and its products are merged
MergeRoot ==
    /\ pc = "pool"
    /\ entry = "multi"
    /\ AllCollected
    /\ all_products' = MergeProducts(all_products, products, dir_key)
    /\ clean_all' = [c \in Codes |->
                       IF clean[c].p # NoProduct
                       THEN [p |-> Stamped(clean[c].p, dir_key), ok |-> clean[c].ok]
                       ELSE clean_all[c]]
    /\ nfrom' = [c \in Codes |->
                   IF products[c] # NoProduct /\ nfrom[c] < 2
                   THEN nfrom[c] + 1 ELSE nfrom[c]]
    /\ last_from' = [c \in Codes |->
                       IF products[c] # NoProduct
                       THEN [p |-> products[c], key |-> dir_key]
                       ELSE last_from[c]]
    /\ tasks' = <<>>
    /\ pc' = "roots"
    /\ UNCHANGED <<scan_mode, entry, dir_key, nroots, products, stats, index,
                   clean, nraised>>
    /\ UNCHANGED nmissing
    /\ UNCHANGED notScan

\* the index scan_multiple_directories returns
MultiIndex(all) == AssetIndex(all)

\* `directories` is exhausted: the metadata is computed, the index returned
FinishMultiple ==
    /\ pc = "roots"
    /\ index' = MultiIndex(all_products)
    /\ pc' = "done"
    /\ UNCHANGED <<scan_mode, entry, dir_key, nroots, tasks, products,
                   all_products, stats, clean, clean_all, nraised, nfrom,
                   last_from>>
    /\ UNCHANGED nmissing
    /\ UNCHANGED notScan

\* scan_directory: the executor is left, the metadata is computed, the index
\* returned
FinishDirectory ==
    /\ pc = "pool"
    /\ entry = "single"
    /\ AllCollected
    /\ index' = AssetIndex(products)
    /\ clean_all' = clean
    /\ tasks' = <<>>
    /\ pc' = "done"
    /\ UNCHANGED <<scan_mode, entry, dir_key, nroots, products, all_products,
                   stats, clean, nraised, nfrom, last_from>>
    /\ UNCHANGED nmissing
    /\ UNCHANGED notScan

NextScan ==
    \/ ScanMultipleDirectories
    \/ UnknownKey
    \/ MissingRoot
    \/ ListingFails
    \/ ScanSingleDirectory
    \/ ScanDirectoryMissing
    \/ ScanDirectoryListingFails
    \/ ScanDirectory
    \/ \E d \in 1..MaxDirs : ProcessNonProduct(d)
    \/ \E d \in 1..MaxDirs : ProcessProduct(d)
    \/ \E d \in 1..MaxDirs : AddFilesScanned(d)
    \/ \E d \in 1..MaxDirs : ProcessRaises(d)
    \/ \E d \in 1..MaxDirs : Collect(d)
    \/ MergeRoot
    \/ FinishMultiple
    \/ FinishDirectory

SpecScan == InitScan /\ [][NextScan]_vars

(***************************************************************************)
(* Claims about the scan.                                                  *)
(***************************************************************************)
\* the entries of a products dict
Entries(ps) == {c \in DOMAIN ps : ps[c] # NoProduct}

\* the assets of a products dict, each named by its product and its place
AllAssets(ps) == UNION {{<<c, i>> : i \in DOMAIN ps[c].assets} : c \in Entries(ps)}

\* the product line and the status that belong to a configured root
ProductLineOf(key) ==
    CASE key = "human_current" -> "Human"
      [] key = "human_wip"     -> "Human"
      [] key = "pet_current"   -> "Pet"
      [] key = "pet_wip"       -> "Pet"

StatusOf(key) ==
    CASE key = "human_current" -> "Current"
      [] key = "human_wip"     -> "Work in Progress"
      [] key = "pet_current"   -> "Current"
      [] key = "pet_wip"       -> "Work in Progress"

\* C1: in every index returned by scan_directory or scan_multiple_directories,
\* whatever directories failed, roots were skipped or codes were duplicated,
\* metadata.total_products is the number of entries of products and
\* metadata.total_assets is the sum of len(assets) over these entries.
C1_MetadataTotals ==
    pc = "done" =>
        /\ index.total_products = Cardinality(Entries(index.products))
        /\ index.total_assets = Cardinality(AllAssets(index.products))

\* C1 witness: an index returned by scan_multiple_directories after a failed
\* product directory and a duplicate code, with assets in it.
C1_Witness ==
    /\ pc = "done"
    /\ entry = "multi"
    /\ nraised > 0
    /\ stats.products_processed > Cardinality(Entries(index.products))
    /\ index.total_assets > 0

\* C7: per-directory failure isolation.  Whatever the interleaving of the
\* worker tasks, when the processing of a product directory raises, the entry
\* of every other product directory (code, folder, asset list, stamps) is the
\* one of the run in which nothing raises, and none of them is missing.
C7_FailureIsolation ==
    pc = "done" =>
        \A c \in Codes :
            (clean_all[c].p # NoProduct /\ clean_all[c].ok) =>
                index.products[c] = clean_all[c].p

\* C7 witness: a scan has returned, the processing of a product directory
\* raised in it, and the index holds the entry of another directory.
C7_Witness ==
    /\ pc = "done"
    /\ nraised > 0
    /\ \E c \in Codes :
          /\ clean_all[c].ok
          /\ clean_all[c].p # NoProduct
          /\ Len(clean_all[c].p.assets) > 0
          /\ index.products[c] = clean_all[c].p

\* C8: after a scan in which the processing of k product directories failed
\* with an I/O or permission error, stats['errors_encountered'] is k.
C8_ErrorsCounted ==
    pc = "done" => stats.errors_encountered = nraised

\* C9: when two roots of one scan_multiple_directories call produce the same
\* code, the index holds for it exactly the ProductInfo of the later root
\* (folder and assets of that root, nothing merged), with the later root's
\* directory_source, product_line and status.
C9_LastWriterWins ==
    (pc = "done" /\ entry = "multi") =>
        \A c \in Codes :
            nfrom[c] = 2 =>
                /\ index.products[c].code = c
                /\ index.products[c].folder_path = last_from[c].p.folder_path
                /\ index.products[c].assets = last_from[c].p.assets
                /\ index.products[c].directory_source = last_from[c].key
                /\ index.products[c].product_line = ProductLineOf(last_from[c].key)
                /\ index.products[c].status = StatusOf(last_from[c].key)

\* C9 witness: scan_multiple_directories has returned, a code was produced by
\* two roots, and its entry is the one of a pet work-in-progress root.
C9_Witness ==
    /\ pc = "done"
    /\ entry = "multi"
    /\ \E c \in Codes :
          /\ nfrom[c] = 2
          /\ index.products[c].directory_source = "pet_wip"
          /\ index.products[c].folder_path[1] = "pet_wip"

\* C10: every ProductInfo of an index produced by a scan
\* (scan_multiple_directories, or scan_directory in any scan_mode) carries the
\* key of the configured root that produced it as directory_source, Human or
\* Pet as product_line and Current or Work in Progress as status after it.
C10_StampsFromRoot ==
    pc = "done" =>
        \A c \in Entries(index.products) :
            LET p == index.products[c]
                root == p.folder_path[1]
            IN  root \in RootKeys =>
                    /\ p.directory_source = root
                    /\ p.product_line = ProductLineOf(root)
                    /\ p.status = StatusOf(root)

\* C11: in scan_multiple_directories a configured root whose directory does
\* not exist is skipped and the remaining roots are still scanned: skipping it
\* leaves the loop over `directories` running and changes nothing that was or
\* will be gathered, so the returned index holds exactly the products merged
\* from the existing roots, as if the missing root had not been listed.
C11_MissingRootSkipped ==
    /\ [][nmissing' # nmissing =>
              /\ pc = "roots" /\ pc' = "roots"
              /\ all_products' = all_products
              /\ products' = products
              /\ tasks' = tasks
              /\ stats' = stats
              /\ index' = index]_vars
    /\ []((pc = "done" /\ entry = "multi") =>
              /\ index.products = all_products
              /\ \A c \in Codes :
                    all_products[c] = IF nfrom[c] = 0 THEN NoProduct
                                      ELSE Stamped(last_from[c].p, last_from[c].key))

\* C11 witness: the first root listed did not exist, and the second one is
\* scanned and has given a product.
C11_Witness ==
    /\ pc = "pool"
    /\ entry = "multi"
    /\ nroots = 2
    /\ nmissing = 1
    /\ \E c \in Codes : products[c] # NoProduct

\* C12: when the whole scan target is absent (every root given to
\* scan_multiple_directories is missing; the source directory of
\* scan_directory is missing) no index is returned, the absence is raised to
\* the caller; and a scan that raises has not done so for a product directory.
C12_AbsentTargetRaised ==
    /\ (entry = "multi" /\ nroots > 0 /\ nmissing = nroots) => pc # "done"
    /\ pc = "raised" => nraised = 0

\* what the collection loop makes of `prods` when a future yields r
Collected(prods, r) ==
    IF r # NoProduct THEN [prods EXCEPT ![r.code] = r] ELSE prods

\* C13: two scans of one unchanged tree return the same products and the same
\* total_assets for every completion order of the worker tasks, also with two
\* directories of one code in a root.  The scans differ in nothing but the
\* order in which as_completed yields the futures, so this says: two finished
\* futures give the same products whichever of them is collected first.
C13_CompletionOrderIrrelevant ==
    pc = "pool" =>
        \A d1, d2 \in DOMAIN tasks :
            (tasks[d1].st = "done" /\ tasks[d2].st = "done") =>
                LET r1 == Returned(tasks[d1], dir_key, d1)
                    r2 == Returned(tasks[d2], dir_key, d2)
                    one == Collected(Collected(products, r1), r2)
                    two == Collected(Collected(products, r2), r1)
                IN  /\ one = two
                    /\ AssetIndex(one).total_assets = AssetIndex(two).total_assets

(***************************************************************************)
(* Strings.  A string is the tuple of its characters.                      *)
(***************************************************************************)
uppercase ==
    <<"A", "B", "C", "D", "E", "F", "G", "H", "I", "J", "K", "L", "M", "N",
      "O", "P", "Q", "R", "S", "T", "U", "V", "W", "X", "Y", "Z">>

lowercase ==
    <<"a", "b", "c", "d", "e", "f", "g", "h", "i", "j", "k", "l", "m", "n",
      "o", "p", "q", "r", "s", "t", "u", "v", "w", "x", "y", "z">>

lower_char(ch) ==
    IF \E i \in DOMAIN uppercase : uppercase[i] = ch
    THEN lowercase[CHOOSE i \in DOMAIN uppercase : uppercase[i] = ch]
    ELSE ch

\* str.lower()
lower(s) == [i \in DOMAIN s |-> lower_char(s[i])]

\* t in s
Contains(s, t) ==
    \E i \in 0..(Len(s) - Len(t)) : SubSeq(s, i + 1, i + Len(t)) = t

\* s.startswith(t), s.endswith(t)
StartsWith(s, t) == Len(t) <= Len(s) /\ SubSeq(s, 1, Len(t)) = t

EndsWith(s, t) ==
    Len(t) <= Len(s) /\ SubSeq(s, Len(s) - Len(t) + 1, Len(s)) = t

\* any(term in s for term in terms)
AnyIn(terms, s) == \E k \in DOMAIN terms : Contains(s, terms[k])

\* sep.join(words)
RECURSIVE Join(_, _)
Join(words, sep) ==
    IF words = <<>> THEN <<>>
    ELSE IF Len(words) = 1 THEN words[1]
    ELSE words[1] \o sep \o Join(Tail(words), sep)

\* the strings made of at most n of the given words
Phrases(words, n, sep) ==
    {Join([i \in DOMAIN pick |-> words[pick[i]]], sep) :
        pick \in UNION {[1..k -> DOMAIN words] : k \in 0..n}}

(***************************************************************************)
(* FileAnalyzer._determine_category.                                       *)
(***************************************************************************)
\* words of a product name in one call
MaxWords == 3

intensecare == <<"i", "n", "t", "e", "n", "s", "e", "c", "a", "r", "e">>

vital_flora_terms ==
    << <<"v", "f">>,
       <<"v", "i", "t", "a", "l", " ", "f", "l", "o", "r", "a">> >>

organic_flora == <<"o", "r", "g", "a", "n", "i", "c", " ", "f", "l", "o",
    "r", "a">>

kit_terms ==
    << <<"h", "o", "p", "e">>,
       <<"a", "m", "a", "z", "o", "n">>,
       <<"k", "i", "t">> >>

digestive_keywords ==
    << <<"o", "m", "e", "g", "a">>,
       <<"g", "u", "t">>,
       <<"l", "i", "v", "e", "r">>,
       <<"l", "a", "x">>,
       <<"f", "i", "b", "e", "r">>,
       <<"d", "e", "t", "o", "x">>,
       <<"c", "l", "e", "a", "n", "s", "e">>,
       <<"d", "i", "g", "e", "s", "t">>,
       <<"r", "e", "n", "e", "w">>,
       <<"b", "o", "o", "s", "t">>,
       <<"p", "u", "r", "e">> >>

fg == <<"f", "g">>

ss == <<"s", "s">>

\* a category function that looks for the kit words first
determine_category_kits_first(name) ==
    LET name_lower == lower(name)
    IN  IF AnyIn(kit_terms, name_lower) THEN "Amazon Kits"
        ELSE IF Contains(name_lower, intensecare)
        THEN IF Contains(name_lower, fg) THEN "IntenseCare FG"
             ELSE IF Contains(name_lower, ss) THEN "IntenseCare SS"
             ELSE "IntenseCare"
        ELSE IF AnyIn(vital_flora_terms, name_lower)
        THEN IF Contains(name_lower, fg) THEN "Vital Flora FG"
             ELSE IF Contains(name_lower, ss) THEN "Vital Flora SS"
             ELSE "Vital Flora"
        ELSE IF Contains(name_lower, organic_flora) THEN "Organic Flora"
        ELSE IF AnyIn(digestive_keywords, name_lower) THEN "Digestive Health"
        ELSE "Other"

determine_category(name) ==
    LET name_lower == lower(name)
    IN  IF Contains(name_lower, intensecare)
        THEN IF Contains(name_lower, fg) THEN "IntenseCare FG"
             ELSE IF Contains(name_lower, ss) THEN "IntenseCare SS"
             ELSE "IntenseCare"
        ELSE IF AnyIn(vital_flora_terms, name_lower)
        THEN IF Contains(name_lower, fg) THEN "Vital Flora FG"
             ELSE IF Contains(name_lower, ss) THEN "Vital Flora SS"
             ELSE "Vital Flora"
        ELSE IF Contains(name_lower, organic_flora) THEN "Organic Flora"
        ELSE IF AnyIn(kit_terms, name_lower) THEN "Amazon Kits"
        ELSE IF AnyIn(digestive_keywords, name_lower) THEN "Digestive Health"
        ELSE "Other"

\* the words product names are made of here
CategoryWords ==
    << <<"I", "n", "t", "e", "n", "s", "e", "C", "a", "r", "e">>,
       <<"V", "F">>,
       <<"V", "i", "t", "a", "l", " ", "F", "l", "o", "r", "a">>,
       <<"O", "r", "g", "a", "n", "i", "c", " ", "F", "l", "o", "r", "a">>,
       <<"F", "G">>,
       <<"S", "S">>,
       <<"K", "i", "t">>,
       <<"O", "m", "e", "g", "a">>,
       <<"G", "l", "a", "s", "s">> >>

ProductNames == Phrases(CategoryWords, MaxWords, <<" ">>)

InitCategory ==
    /\ PoolUnused
    /\ SaversUnused
    /\ SaveIdle
    /\ LoadUnused
    /\ ScanUnused
    /\ arg \in ProductNames
    /\ ret = [done |-> FALSE, value |-> ""]

DetermineCategory ==
    /\ ~ret.done
    /\ ret' = [done |-> TRUE, value |-> determine_category(arg)]
    /\ UNCHANGED arg
    /\ UNCHANGED notAnalysis

NextCategory ==
    \/ DetermineCategory

SpecCategory == InitCategory /\ [][NextCategory]_vars

(***************************************************************************)
(* Claims about _determine_category.                                       *)
(***************************************************************************)
\* the rules in the order of their priority: whether rule k matches a name
RuleMatches(k, n) ==
    CASE k = 1 -> Contains(n, intensecare)
      [] k = 2 -> \/ Contains(n, <<"v", "f">>)
                  \/ Contains(n, <<"v", "i", "t", "a", "l", " ", "f", "l", "o", "r", "a">>)
      [] k = 3 -> Contains(n, organic_flora)
      [] k = 4 -> AnyIn(kit_terms, n)
      [] k = 5 -> AnyIn(digestive_keywords, n)
      [] k = 6 -> TRUE

\* the category of rule k, with the sub-split of rules 1 and 2
RuleCategories(k, n) ==
    LET split(plain, with_fg, with_ss) ==
            IF Contains(n, fg) /\ ~Contains(n, ss) THEN {with_fg}
            ELSE IF Contains(n, ss) /\ ~Contains(n, fg) THEN {with_ss}
            ELSE IF Contains(n, fg) /\ Contains(n, ss) THEN {with_fg, with_ss}
            ELSE {plain}
    IN  CASE k = 1 -> split("IntenseCare", "IntenseCare FG", "IntenseCare SS")
          [] k = 2 -> split("Vital Flora", "Vital Flora FG", "Vital Flora SS")
          [] k = 3 -> {"Organic Flora"}
          [] k = 4 -> {"Amazon Kits"}
          [] k = 5 -> {"Digestive Health"}
          [] k = 6 -> {"Other"}

\* C15: the category is that of the earliest rule that matches, in the order
\* IntenseCare (FG / SS), Vital Flora or VF (FG / SS), Organic Flora, the kit
\* words, a health-domain keyword, else Other, whatever words of later rules
\* the name also contains.
C15_EarliestRuleWins ==
    ret.done =>
        LET n == lower(arg)
            first == CHOOSE k \in 1..6 :
                         RuleMatches(k, n) /\ \A j \in 1..(k - 1) : ~RuleMatches(j, n)
        IN  ret.value \in RuleCategories(first, n)

\* C15 witness: a name with the words of rules 1, 4 and 5 got the category of
\* rule 1.
C15_Witness ==
    /\ ret.done
    /\ RuleMatches(1, lower(arg))
    /\ RuleMatches(4, lower(arg))
    /\ RuleMatches(5, lower(arg))
    /\ ret.value = "IntenseCare"

(***************************************************************************)
(* FileAnalyzer.extract_product_info and _clean_product_name.              *)
(***************************************************************************)
\* characters of a folder name after its leading digits
MaxRest == 3

digit_chars == <<"0", "1", "2", "3", "4", "5", "6", "7", "8", "9">>

\* \d, \s and \w of the regular expressions
is_digit(ch) == \E i \in DOMAIN digit_chars : digit_chars[i] = ch

whitespace == {" "}

is_word_char(ch) ==
    \/ is_digit(ch)
    \/ ch = "_"
    \/ \E i \in DOMAIN uppercase : ch = uppercase[i] \/ ch = lowercase[i]

\* str.lstrip(chars), str.rstrip(chars), str.strip(chars)
RECURSIVE lstrip(_, _)
lstrip(s, chars) ==
    IF s # <<>> /\ Head(s) \in chars THEN lstrip(Tail(s), chars) ELSE s

RECURSIVE rstrip(_, _)
rstrip(s, chars) ==
    IF s # <<>> /\ s[Len(s)] \in chars
    THEN rstrip(SubSeq(s, 1, Len(s) - 1), chars)
    ELSE s

strip(s, chars) == rstrip(lstrip(s, chars), chars)

NoMatch == [matched |-> FALSE, code |-> <<>>, name |-> <<>>]

\* re.match(r'(\d{5})[-\s]*(.+)', folder_name): five digits at the start, the
\* separators that follow (all but the last one when nothing follows them,
\* for (.+) needs a character), and the rest as group 2
product_code_pattern(folder_name) ==
    IF \/ Len(folder_name) < 6
       \/ \E i \in 1..5 : ~is_digit(folder_name[i])
    THEN NoMatch
    ELSE LET rest == SubSeq(folder_name, 6, Len(folder_name))
             seps == Len(rest) - Len(lstrip(rest, {"-"} \cup whitespace))
             skipped == IF seps = Len(rest) THEN seps - 1 ELSE seps
         IN  [matched |-> TRUE,
              code |-> SubSeq(folder_name, 1, 5),
              name |-> SubSeq(rest, skipped + 1, Len(rest))]

\* re.sub(r'[_\s]+', ' ', name)
RECURSIVE collapse_blanks(_)
collapse_blanks(s) ==
    IF s = <<>> THEN <<>>
    ELSE IF Head(s) \in {"_"} \cup whitespace
         THEN <<" ">> \o collapse_blanks(lstrip(s, {"_"} \cup whitespace))
         ELSE <<Head(s)>> \o collapse_blanks(Tail(s))

prefixes_to_clean ==
    << <<"V", "i", "t", "a", "l", " ", "P", "l", "a", "n", "e", "t">>,
       <<"V", "P">> >>

\* for prefix in prefixes_to_clean: if name.startswith(prefix): ...
RECURSIVE clean_prefixes(_, _)
clean_prefixes(name, prefixes) ==
    IF prefixes = <<>> THEN name
    ELSE IF StartsWith(name, Head(prefixes))
         THEN clean_prefixes(
                  strip(SubSeq(name, Len(Head(prefixes)) + 1, Len(name)),
                        {" ", "-", "_"}),
                  Tail(prefixes))
         ELSE clean_prefixes(name, Tail(prefixes))

\* re.sub(rf'\b{old}\b', new, s, flags=re.IGNORECASE), from position i on
RECURSIVE sub_word(_, _, _, _)
sub_word(s, i, old, new) ==
    IF i > Len(s) THEN <<>>
    ELSE IF /\ i + Len(old) - 1 <= Len(s)
            /\ lower(SubSeq(s, i, i + Len(old) - 1)) = lower(old)
            /\ (i = 1 \/ ~is_word_char(s[i - 1]))
            /\ (i + Len(old) > Len(s) \/ ~is_word_char(s[i + Len(old)]))
         THEN new \o sub_word(s, i + Len(old), old, new)
         ELSE <<s[i]>> \o sub_word(s, i + 1, old, new)

\* the pairs (old, new), in the order of the dict
standardizations ==
    << <<<<"F", "G">>, <<"F", "G">>>>,
       <<<<"S", "S">>, <<"S", "S">>>>,
       <<<<"c", "t">>, <<"c", "t">>>>,
       <<<<"V", "F">>, <<"V", "F">>>>,
       <<<<"I", "C">>,
         <<"I", "n", "t", "e", "n", "s", "e", "C", "a", "r", "e">>>> >>

RECURSIVE standardize(_, _)
standardize(name, pairs) ==
    IF pairs = <<>> THEN name
    ELSE standardize(sub_word(name, 1, Head(pairs)[1], Head(pairs)[2]),
                     Tail(pairs))

clean_product_name(name) ==
    standardize(
        clean_prefixes(strip(collapse_blanks(name), whitespace),
                       prefixes_to_clean),
        standardizations)

NoInfo == [found |-> FALSE, code |-> <<>>, name |-> <<>>, category |-> ""]

extract_product_info(folder_name) ==
    LET match == product_code_pattern(folder_name)
        name == clean_product_name(strip(match.name, whitespace))
    IN  IF ~match.matched THEN NoInfo
        ELSE [found |-> TRUE, code |-> match.code, name |-> name,
              category |-> determine_category(name)]

\* the characters that follow the leading digits of a folder name here
NameChars == {"6", "-", " ", "_", "x", "V", "P", "i", "c"}

\* folder names: up to five digits, then up to MaxRest characters
FolderNames ==
    {SubSeq(<<"1", "2", "3", "4", "5">>, 1, n) \o rest :
        n \in 0..5, rest \in UNION {[1..k -> NameChars] : k \in 0..MaxRest}}

InitExtract ==
    /\ PoolUnused
    /\ SaversUnused
    /\ SaveIdle
    /\ LoadUnused
    /\ ScanUnused
    /\ arg \in FolderNames
    /\ ret = [done |-> FALSE, value |-> NoInfo]

ExtractProductInfo ==
    /\ ~ret.done
    /\ ret' = [done |-> TRUE, value |-> extract_product_info(arg)]
    /\ UNCHANGED arg
    /\ UNCHANGED notAnalysis

NextExtract ==
    \/ ExtractProductInfo

SpecExtract == InitExtract /\ [][NextExtract]_vars

(***************************************************************************)
(* Claims about extract_product_info.                                      *)
(***************************************************************************)
\* the folder names that match ^\d{5}[-\s]+.+
MatchesCodeSeparatorName(s) ==
    /\ Len(s) >= 7
    /\ \A i \in 1..5 : is_digit(s[i])
    /\ s[6] \in {"-", " "}

\* C14: for a folder name matching ^\d{5}[-\s]+.+ extract_product_info returns
\* the leading five digits as code and a cleaned name that is not empty; for
\* every other folder name it returns no product.
C14_CodeAndName ==
    ret.done =>
        IF MatchesCodeSeparatorName(arg)
        THEN /\ ret.value.found
             /\ ret.value.code = SubSeq(arg, 1, 5)
             /\ ret.value.name # <<>>
        ELSE ~ret.value.found

(***************************************************************************)
(* FileAnalyzer.classify_asset: _should_include_file, _is_current_version  *)
(* and _classify_asset_type.                                               *)
(***************************************************************************)
\* directories between the root and the file
MaxSegments == 2

\* the last position of ch in s, 0 if there is none
last_index(s, ch) ==
    IF \E i \in DOMAIN s : s[i] = ch
    THEN CHOOSE i \in DOMAIN s : s[i] = ch /\ \A j \in (i + 1)..Len(s) : s[j] # ch
    ELSE 0

\* Path(name).suffix
suffix(name) ==
    LET i == last_index(name, ".")
    IN  IF 1 < i /\ i < Len(name) THEN SubSeq(name, i, Len(name)) ELSE <<>>

\* any(x == s for x in xs), any(s.endswith(x) for x in xs)
IsOneOf(xs, s) == \E k \in DOMAIN xs : xs[k] = s

EndsWithOneOf(s, xs) == \E k \in DOMAIN xs : EndsWith(s, xs[k])

\* settings.SCAN_EXTENSIONS, all groups
all_extensions ==
    << <<".", "p", "n", "g">>,
       <<".", "j", "p", "g">>,
       <<".", "j", "p", "e", "g">>,
       <<".", "p", "s", "d">>,
       <<".", "a", "i">>,
       <<".", "p", "d", "f">>,
       <<".", "t", "i", "f", "f">>,
       <<".", "t", "i", "f">>,
       <<".", "d", "o", "c", "x">>,
       <<".", "t", "x", "t">>,
       <<".", "i", "n", "d", "d">>,
       <<".", "d", "o", "c">>,
       <<".", "r", "t", "f">>,
       <<".", "m", "d">>,
       <<".", "z", "i", "p">>,
       <<".", "r", "a", "r">>,
       <<".", "7", "z">>,
       <<".", "m", "p", "4">>,
       <<".", "m", "o", "v">>,
       <<".", "a", "v", "i">>,
       <<".", "m", "k", "v">> >>

system_files ==
    << <<".", "d", "s", "_", "s", "t", "o", "r", "e">>,
       <<"t", "h", "u", "m", "b", "s", ".", "d", "b">>,
       <<"d", "e", "s", "k", "t", "o", "p", ".", "i", "n", "i">> >>

temp_patterns ==
    << <<".", "t", "m", "p">>,
       <<"~", "$">>,
       <<".", "l", "o", "c", "k">> >>

should_include_file(name) ==
    /\ IsOneOf(all_extensions, lower(suffix(name)))
    /\ ~IsOneOf(system_files, lower(name))
    /\ ~AnyIn(temp_patterns, lower(name))

archive_indicators ==
    << <<"o", "l", "d", " ", "v", "e", "r", "s", "i", "o", "n", "s">>,
       <<"o", "l", "d", " ", "m", "o", "c", "k", "-", "u", "p", "s">>,
       <<"o", "l", "d", " ", "m", "o", "c", "k", " ", "u", "p", "s">>,
       <<"o", "l", "d", " ", "m", "o", "c", "k", "u", "p", "s">>,
       <<"d", "r", "a", "f", "t", "s">>,
       <<"a", "r", "c", "h", "i", "v", "e">>,
       <<"b", "a", "c", "k", "u", "p">>,
       <<"n", "o", "t", " ", "u", "s", "e", "d">>,
       <<"u", "n", "u", "s", "e", "d">>,
       <<"p", "r", "e", "v", "i", "o", "u", "s">>,
       <<"d", "e", "p", "r", "e", "c", "a", "t", "e", "d">>,
       <<"o", "u", "t", "d", "a", "t", "e", "d">>,
       <<"o", "l", "d", " ", "l", "i", "n", "k", "s">> >>

print_ready == <<"p", "r", "i", "n", "t", " ", "r", "e", "a", "d", "y">>

is_current_version(path_str) ==
    LET path_lower == lower(path_str)
        is_archived == AnyIn(archive_indicators, path_lower)
    IN  IF Contains(path_lower, print_ready) /\ ~is_archived THEN TRUE
        ELSE IF Contains(path_lower, <<"d", "r", "a", "f", "t">>) THEN FALSE
        ELSE ~is_archived

print_indicators ==
    << <<"p", "r", "i", "n", "t", " ", "r", "e", "a", "d", "y">>,
       <<"p", "r", "i", "n", "t", "-", "r", "e", "a", "d", "y">>,
       <<"p", "r", "i", "n", "t", "r", "e", "a", "d", "y">>,
       <<"p", "r", "o", "d", "u", "c", "t", "i", "o", "n">>,
       <<"/", "f", "i", "n", "a", "l", "/">>,
       <<"s", "u", "n", "s", "e", "t">> >>

mockup_path_indicators ==
    << <<"m", "o", "c", "k", " ", "u", "p", "s", "/", "3", "d">>,
       <<"m", "o", "c", "k", "-", "u", "p", "s", "/", "3", "d">>,
       <<"m", "o", "c", "k", "u", "p", "s", "/", "3", "d">>,
       <<"o", "l", "d", " ", "m", "o", "c", "k", "-", "u", "p", "s">>,
       <<"o", "l", "d", " ", "m", "o", "c", "k", " ", "u", "p", "s">>,
       <<"o", "l", "d", " ", "m", "o", "c", "k", "u", "p", "s">>,
       <<"3", "d", " ", "m", "o", "c", "k", "u", "p", "s", ",", " ", "i",
         "m", "a", "g", "e", "s", ",", " ", "f", "l", "a", "t", "b", "a",
         "c", "k", "s", ",", " ", "o", "t", "h", "e", "r", " ", "r", "e",
         "l", "a", "t", "e", "d">>,
       <<"0", "1", " ", "-", " ", "m", "o", "c", "k", "u", "p", "s">>,
       <<"0", "0", " ", "-", " ", "3", "d">> >>

label_indicators ==
    << <<"l", "a", "b", "e", "l">>,
       <<"-", "l">>,
       <<"_", "l", "_">>,
       <<"1", "9", "2", "0", "7", "l">>,
       <<"1", "9", "2", "0", "7", "-", "l">>,
       <<"/", "l", "a", "b", "e", "l", "s", "/">>,
       <<"p", "a", "r", "t", " ", "1", " ", "l", "a", "b", "e", "l">>,
       <<"p", "a", "r", "t", " ", "2", " ", "l", "a", "b", "e", "l">> >>

box_indicators ==
    << <<"b", "o", "x">>,
       <<"-", "b">>,
       <<"_", "b", "_">>,
       <<"1", "9", "2", "0", "7", "b">>,
       <<"1", "9", "2", "0", "7", "-", "b">>,
       <<"/", "b", "o", "x", "/">>,
       <<"p", "a", "c", "k", "a", "g", "i", "n", "g">> >>

type_archive_indicators ==
    << <<"o", "l", "d">>,
       <<"d", "r", "a", "f", "t">>,
       <<"a", "r", "c", "h", "i", "v", "e">>,
       <<"b", "a", "c", "k", "u", "p">>,
       <<"n", "o", "t", " ", "u", "s", "e", "d">>,
       <<"p", "r", "e", "v", "i", "o", "u", "s">> >>

template_indicators ==
    << <<"t", "e", "m", "p", "l", "a", "t", "e">>,
       <<"d", "i", "e", "l", "i", "n", "e">>,
       <<"d", "i", "e", " ", "l", "i", "n", "e">> >>

doc_indicators ==
    << <<"r", "e", "p", "o", "r", "t">>,
       <<"c", "h", "a", "n", "g", "e">>,
       <<"s", "p", "e", "c">>,
       <<"i", "n", "s", "t", "r", "u", "c", "t", "i", "o", "n">>,
       <<".", "d", "o", "c", "x">>,
       <<".", "t", "x", "t">>,
       <<".", "p", "d", "f">> >>

\* filename_lower.endswith(('.png', '.jpg', '.jpeg', '.psd')) of rule 2
mockup_directory_suffixes ==
    << <<".", "p", "n", "g">>,
       <<".", "j", "p", "g">>,
       <<".", "j", "p", "e", "g">>,
       <<".", "p", "s", "d">> >>

\* filename_lower.endswith(('.png', '.jpg', '.jpeg')) of rule 2
mockup_suffixes ==
    << <<".", "p", "n", "g">>,
       <<".", "j", "p", "g">>,
       <<".", "j", "p", "e", "g">> >>

\* file_ext in ['png', 'jpg', 'jpeg'], file_ext in ['ai', 'psd'] of rule 8
image_exts ==
    << <<"p", "n", "g">>,
       <<"j", "p", "g">>,
       <<"j", "p", "e", "g">> >>

design_exts ==
    << <<"a", "i">>,
       <<"p", "s", "d">> >>

\* any(indicator in path_lower or indicator in filename_lower for ...)
AnyInEither(terms, path_lower, filename_lower) ==
    AnyIn(terms, path_lower) \/ AnyIn(terms, filename_lower)

\* rules 3 to 8 of the cascade
classify_after_mockups(path_lower, filename_lower) ==
    LET dot == last_index(filename_lower, ".")
        file_ext == IF dot = 0 THEN <<>>
                    ELSE SubSeq(filename_lower, dot + 1, Len(filename_lower))
    IN  IF AnyInEither(label_indicators, path_lower, filename_lower)
            THEN "Label Art"
        ELSE IF AnyInEither(box_indicators, path_lower, filename_lower)
            THEN "Box Art"
        ELSE IF AnyIn(type_archive_indicators, path_lower) THEN "Archive"
        ELSE IF AnyIn(template_indicators, path_lower) THEN "Template"
        ELSE IF AnyIn(doc_indicators, filename_lower) THEN "Documentation"
        ELSE IF IsOneOf(image_exts, file_ext)
            THEN "3D Mockup"
        ELSE IF IsOneOf(design_exts, file_ext)
            THEN IF \/ Contains(filename_lower, <<"b", "o", "x">>)
                    \/ Contains(filename_lower, <<"p", "a", "c", "k", "a", "g", "i", "n", "g">>)
                     THEN "Box Art"
                 ELSE IF Contains(filename_lower, <<"l", "a", "b", "e", "l">>)
                     THEN "Label Art"
                 ELSE "Box Art"
        ELSE "Other"

\* rule 2 of the cascade: the mockup directories, then "mock" anywhere
is_mockup(path_lower, filename_lower) ==
    \/ /\ AnyIn(mockup_path_indicators, path_lower)
       /\ EndsWithOneOf(filename_lower, mockup_directory_suffixes)
    \/ /\ Contains(path_lower, <<"m", "o", "c", "k">>)
       /\ EndsWithOneOf(filename_lower, mockup_suffixes)

\* a cascade that looks for the archive words before anything else
classify_asset_type_archive_first(path_str, filename) ==
    LET path_lower == lower(path_str)
        filename_lower == lower(filename)
    IN  IF AnyIn(type_archive_indicators, path_lower) THEN "Archive"
        ELSE IF AnyIn(print_indicators, path_lower) THEN "Print Ready"
        ELSE IF is_mockup(path_lower, filename_lower) THEN "3D Mockup"
        ELSE classify_after_mockups(path_lower, filename_lower)

\* a cascade in which the label and box rules come before the mockup rule
classify_asset_type_mockups_late(path_str, filename) ==
    LET path_lower == lower(path_str)
        filename_lower == lower(filename)
    IN  IF AnyIn(print_indicators, path_lower) THEN "Print Ready"
        ELSE IF AnyInEither(label_indicators, path_lower, filename_lower)
            THEN "Label Art"
        ELSE IF AnyInEither(box_indicators, path_lower, filename_lower)
            THEN "Box Art"
        ELSE IF is_mockup(path_lower, filename_lower) THEN "3D Mockup"
        ELSE classify_after_mockups(path_lower, filename_lower)

classify_asset_type(path_str, filename) ==
    LET path_lower == lower(path_str)
        filename_lower == lower(filename)
    IN  IF AnyIn(print_indicators, path_lower) THEN "Print Ready"
        ELSE IF is_mockup(path_lower, filename_lower) THEN "3D Mockup"
        ELSE classify_after_mockups(path_lower, filename_lower)

\* str(file_path) and file_path.name of a file: the directories and the name
path_of(file_path) == <<"/">> \o Join(file_path, <<"/">>)

name_of(file_path) == file_path[Len(file_path)]

\* classify_asset(file_path, base_path): (asset_type, is_current)
classify_asset(file_path) ==
    LET path_str == lower(path_of(file_path))
        name == lower(name_of(file_path))
    IN  IF ~should_include_file(name_of(file_path))
        THEN [asset_type |-> "Excluded", is_current |-> FALSE]
        ELSE [asset_type |-> classify_asset_type(path_str, name),
              is_current |-> is_current_version(path_str)]

\* the directory names and the file names paths are made of here
DirectoryNames ==
    << <<"P", "r", "i", "n", "t", " ", "R", "e", "a", "d", "y">>,
       <<"A", "r", "c", "h", "i", "v", "e">>,
       <<"O", "l", "d", " ", "M", "o", "c", "k", "-", "u", "p", "s">>,
       <<"M", "o", "c", "k", "u", "p", "s">>,
       <<"F", "i", "n", "a", "l">>,
       <<"D", "r", "a", "f", "t", "s">>,
       <<"B", "o", "x">>,
       <<"L", "a", "b", "e", "l", "s">> >>

FileNames ==
    << <<"a", ".", "p", "n", "g">>,
       <<"B", "o", "x", ".", "P", "N", "G">>,
       <<"m", "o", "c", "k", ".", "l", "o", "c", "k", ".", "p", "n", "g">>,
       <<"a", ".", "p", "s", "d">>,
       <<"l", "a", "b", "e", "l", ".", "a", "i">>,
       <<"n", "o", "t", "e", "s", ".", "t", "x", "t">>,
       <<"a", ".", "t", "m", "p">>,
       <<"d", "i", "e", " ", "l", "i", "n", "e", ".", "t", "i", "f">> >>

FilePaths ==
    {[i \in DOMAIN dirs |-> DirectoryNames[dirs[i]]] \o <<FileNames[f]>> :
        dirs \in UNION {[1..k -> DOMAIN DirectoryNames] : k \in 0..MaxSegments},
        f \in DOMAIN FileNames}

InitClassify ==
    /\ PoolUnused
    /\ SaversUnused
    /\ SaveIdle
    /\ LoadUnused
    /\ ScanUnused
    /\ arg \in FilePaths
    /\ ret = [done |-> FALSE, value |-> [asset_type |-> "", is_current |-> FALSE]]

ClassifyAsset ==
    /\ ~ret.done
    /\ ret' = [done |-> TRUE, value |-> classify_asset(arg)]
    /\ UNCHANGED arg
    /\ UNCHANGED notAnalysis

NextClassify ==
    \/ ClassifyAsset

SpecClassify == InitClassify /\ [][NextClassify]_vars

(***************************************************************************)
(* Claims about classify_asset.                                            *)
(***************************************************************************)
\* the file of the call is one _should_include_file lets in
Included == ret.done /\ ret.value.asset_type # "Excluded"

\* the lower-cased path of the call contains the string
PathHas(t) == Contains(lower(path_of(arg)), t)

\* C16: a path with an archive indicator is archived (is_current false)
\* unless it also contains "print ready", which always wins: a path with
\* "print ready" is current whatever archive indicators it contains.
C16_PrintReadyAlwaysCurrent ==
    Included =>
        /\ PathHas(print_ready) => ret.value.is_current
        /\ (AnyIn(archive_indicators, lower(path_of(arg))) /\ ~PathHas(print_ready))
               => ~ret.value.is_current

\* C17: an included file whose path contains both "print ready" and "archive"
\* has the asset type "Print Ready", never "Archive".
C17_PrintReadyBeforeArchive ==
    (Included /\ PathHas(print_ready) /\ PathHas(<<"a", "r", "c", "h", "i", "v", "e">>)) =>
        ret.value.asset_type = "Print Ready"

\* C17 witness: a file below Archive/Print Ready was classified "Print Ready".
C17_Witness ==
    /\ Included
    /\ PathHas(<<"/", "a", "r", "c", "h", "i", "v", "e", "/", "p", "r", "i", "n", "t", " ", "r", "e", "a", "d", "y", "/">>)
    /\ ret.value.asset_type = "Print Ready"

MaxAssets == 3

upper_char(ch) ==
    IF \E i \in DOMAIN lowercase : lowercase[i] = ch
    THEN uppercase[CHOOSE i \in DOMAIN lowercase : lowercase[i] = ch]
    ELSE ch

\* str.upper()
upper(s) == [i \in DOMAIN s |-> upper_char(s[i])]

\* s.replace(ch, '')
without_char(s, ch) == SelectSeq(s, LAMBDA x : x # ch)

\* the order of the characters of an upper-cased extension
char_order == digit_chars \o uppercase

char_rank(ch) ==
    IF \E i \in DOMAIN char_order : char_order[i] = ch
    THEN CHOOSE i \in DOMAIN char_order : char_order[i] = ch
    ELSE 0

\* a < b for strings
RECURSIVE str_less(_, _)
str_less(a, b) ==
    IF b = <<>> THEN FALSE
    ELSE IF a = <<>> THEN TRUE
    ELSE IF char_rank(Head(a)) # char_rank(Head(b))
         THEN char_rank(Head(a)) < char_rank(Head(b))
    ELSE str_less(Tail(a), Tail(b))

\* sorted(list(set(...))) of a set of strings
RECURSIVE sorted(_)
sorted(S) ==
    IF S = {} THEN <<>>
    ELSE LET least == CHOOSE x \in S : \A y \in S \ {x} : str_less(x, y)
         IN  <<least>> \o sorted(S \ {least})

\* Path(filename).stem
stem(filename) ==
    SubSeq(filename, 1, Len(filename) - Len(suffix(filename)))

\* whether all of t is matched by \s*\(?\d+\)?
is_trailing_number(t) ==
    LET a == lstrip(t, whitespace)
        b == IF a # <<>> /\ Head(a) = "(" THEN Tail(a) ELSE a
        c == IF b # <<>> /\ b[Len(b)] = ")" THEN SubSeq(b, 1, Len(b) - 1) ELSE b
    IN  c # <<>> /\ \A i \in DOMAIN c : is_digit(c[i])

\* re.sub(r'\s*\(?\d+\)?$', '', base): the match starts at the first position
\* from which the pattern reaches the end of the string
strip_trailing_number(base) ==
    LET starts == {i \in DOMAIN base : is_trailing_number(SubSeq(base, i, Len(base)))}
    IN  IF starts = {} THEN base
        ELSE SubSeq(base, 1, (CHOOSE i \in starts : \A j \in starts : i <= j) - 1)

get_base_filename(filename) ==
    strip(strip_trailing_number(stem(filename)), whitespace)

priority_extensions ==
    << <<".", "p", "n", "g">>,
       <<".", "j", "p", "g">>,
       <<".", "j", "p", "e", "g">>,
       <<".", "p", "s", "d">>,
       <<".", "a", "i">> >>

\* for ext in priority_extensions: for asset in assets: ...; else assets[0]
RECURSIVE select_primary(_, _)
select_primary(assets, exts) ==
    IF exts = <<>> THEN assets[1]
    ELSE IF \E i \in DOMAIN assets : lower(assets[i].extension) = Head(exts)
         THEN assets[CHOOSE i \in DOMAIN assets :
                        /\ lower(assets[i].extension) = Head(exts)
                        /\ \A j \in 1..(i - 1) :
                               lower(assets[j].extension) # Head(exts)]
         ELSE select_primary(assets, Tail(exts))

select_primary_asset(assets) == select_primary(assets, priority_extensions)

\* AssetGroup.available_formats
available_formats(related_assets) ==
    sorted({upper(without_char(related_assets[i].extension, ".")) :
                i \in DOMAIN related_assets})

\* the keys of `groups` in the order of their insertion
RECURSIVE base_names(_)
base_names(mockup_assets) ==
    IF mockup_assets = <<>> THEN <<>>
    ELSE LET front == SubSeq(mockup_assets, 1, Len(mockup_assets) - 1)
             base == get_base_filename(mockup_assets[Len(mockup_assets)].name)
             before == base_names(front)
         IN  IF \E i \in DOMAIN before : before[i] = base THEN before
             ELSE Append(before, base)

AssetGroup(base_name, assets) ==
    [base_name |-> base_name,
     primary_asset |-> select_primary_asset(assets),
     related_assets |-> assets,
     asset_type |-> "3D Mockup",
     available_formats |-> available_formats(assets)]

group_3d_mockups(assets) ==
    LET mockup_assets == SelectSeq(assets, LAMBDA a : a.type = "3D Mockup")
        group(base) ==
            SelectSeq(mockup_assets, LAMBDA a : get_base_filename(a.name) = base)
        bases == SelectSeq(base_names(mockup_assets),
                           LAMBDA base : Len(group(base)) > 1)
    IN  [i \in DOMAIN bases |-> AssetGroup(bases[i], group(bases[i]))]

\* AssetInfo.from_file: name, type and extension = file_path.suffix.lower()
AssetInfo(name, type) ==
    [name |-> name, type |-> type, extension |-> lower(suffix(name))]

\* the file names and the types of the assets of a product here
AssetStems ==
    << <<"W", "i", "d", "g", "e", "t">>,
       <<"W", "i", "d", "g", "e", "t", " ", "(", "1", ")">>,
       <<"W", "i", "d", "g", "e", "t", " ", "2">>,
       <<"G", "a", "d", "g", "e", "t">> >>

AssetSuffixes ==
    << <<".", "p", "n", "g">>,
       <<".", "j", "p", "g">>,
       <<".", "p", "s", "d">>,
       <<".", "t", "i", "f">> >>

AssetTypes == {"3D Mockup", "Box Art"}

Assets ==
    {AssetInfo(AssetStems[s] \o AssetSuffixes[e], t) :
        s \in DOMAIN AssetStems, e \in DOMAIN AssetSuffixes, t \in AssetTypes}

InitGroup ==
    /\ PoolUnused
    /\ SaversUnused
    /\ SaveIdle
    /\ LoadUnused
    /\ ScanUnused
    /\ arg \in UNION {[1..n -> Assets] : n \in 0..MaxAssets}
    /\ ret = [done |-> FALSE, value |-> <<>>]

Group3dMockups ==
    /\ ~ret.done
    /\ ret' = [done |-> TRUE, value |-> group_3d_mockups(arg)]
    /\ UNCHANGED arg
    /\ UNCHANGED notAnalysis

NextGroup ==
    \/ Group3dMockups

SpecGroup == InitGroup /\ [][NextGroup]_vars

(***************************************************************************)
(* Claims about group_3d_mockups.                                          *)
(***************************************************************************)
\* whether all of t is a parenthesized number, after blanks: \s*\(\d+\)
IsParenthesizedNumber(t) ==
    LET a == lstrip(t, whitespace)
    IN  /\ Len(a) >= 3
        /\ a[1] = "(" /\ a[Len(a)] = ")"
        /\ \A i \in 2..(Len(a) - 1) : is_digit(a[i])

\* the stem of a file name with a trailing parenthesized number stripped
NormalizedBase(filename) ==
    LET base == stem(filename)
        starts == {i \in DOMAIN base :
                       IsParenthesizedNumber(SubSeq(base, i, Len(base)))}
    IN  IF starts = {} THEN strip(base, whitespace)
        ELSE strip(SubSeq(base, 1, (CHOOSE i \in starts :
                                        \A j \in starts : i <= j) - 1),
                   whitespace)

\* the "3D Mockup" assets of the call with a given normalized base name
Members(base) ==
    SelectSeq(arg, LAMBDA a : a.type = "3D Mockup" /\ NormalizedBase(a.name) = base)

\* the place of an extension in PNG > JPG/JPEG > PSD > AI > anything else
PriorityOf(extension) ==
    CASE extension = <<".", "p", "n", "g">> -> 1
      [] extension = <<".", "j", "p", "g">> -> 2
      [] extension = <<".", "j", "p", "e", "g">> -> 2
      [] extension = <<".", "p", "s", "d">> -> 3
      [] extension = <<".", "a", "i">> -> 4
      [] OTHER -> 5

\* C19: group_3d_mockups returns exactly one group for each normalized base
\* name (stem without a trailing parenthesized number) that two or more
\* "3D Mockup" assets share and none for a base name with one asset; the
\* members of a group are exactly these assets, its primary is a member of
\* the best priority PNG > JPG/JPEG > PSD > AI (the first asset when none of
\* these is there), and available_formats is the sorted set of the members'
\* upper-cased extensions, without duplicates.
C19_OneGroupPerSharedBase ==
    ret.done =>
        LET groups == ret.value
            shared == {b \in {NormalizedBase(arg[i].name) : i \in DOMAIN arg} :
                          Len(Members(b)) >= 2}
        IN  /\ {groups[i].base_name : i \in DOMAIN groups} = shared
            /\ Len(groups) = Cardinality(shared)
            /\ \A i \in DOMAIN groups :
                  LET g == groups[i]
                      m == Members(g.base_name)
                  IN  /\ g.related_assets = m
                      /\ \E k \in DOMAIN m : g.primary_asset = m[k]
                      /\ \A k \in DOMAIN m :
                            PriorityOf(g.primary_asset.extension)
                                <= PriorityOf(m[k].extension)
                      /\ PriorityOf(g.primary_asset.extension) = 5
                            => g.primary_asset = m[1]
                      /\ {g.available_formats[k] : k \in DOMAIN g.available_formats}
                            = {upper(without_char(m[k].extension, ".")) :
                                   k \in DOMAIN m}
                      /\ \A k \in 1..(Len(g.available_formats) - 1) :
                            str_less(g.available_formats[k],
                                     g.available_formats[k + 1])

(***************************************************************************)
(* TemporalAnalyzer._calculate_confidence, as extract_filename_dates calls *)
(* it: with the type of the pattern that matched and the lower-cased       *)
(* filename.  Confidences are in hundredths (0.4 is 40).                   *)
(***************************************************************************)
\* words of a filename in one call
MaxContext == 2

\* the types of _compile_date_patterns, and one that is none of them
PatternTypes ==
    {"art_date", "draft_date", "version_date", "iso_date", "compact_date",
     "month_year", "month_year_full", "other"}

\* base_confidence = {...}.get(pattern_type, 0.2)
base_confidence(pattern_type) ==
    CASE pattern_type = "art_date"        -> 40
      [] pattern_type = "draft_date"      -> 50
      [] pattern_type = "version_date"    -> 30
      [] pattern_type = "iso_date"        -> 40
      [] pattern_type = "compact_date"    -> 30
      [] pattern_type = "month_year"      -> 40
      [] pattern_type = "month_year_full" -> 30
      [] OTHER                            -> 20

\* the boosts for 'draft' and for 'final' or 'print ready' in the filename
boosted_confidence(pattern_type, filename) ==
    base_confidence(pattern_type)
        + (IF Contains(filename, <<"d", "r", "a", "f", "t">>) THEN 10 ELSE 0)
        + (IF \/ Contains(filename, <<"f", "i", "n", "a", "l">>)
              \/ Contains(lower(filename), print_ready)
           THEN 5 ELSE 0)

\* a confidence without the cap
calculate_confidence_uncapped(pattern_type, match_text, filename) ==
    boosted_confidence(pattern_type, filename)

\* min(base_confidence, 0.6)
calculate_confidence(pattern_type, match_text, filename) ==
    IF boosted_confidence(pattern_type, filename) < 60
    THEN boosted_confidence(pattern_type, filename)
    ELSE 60

\* the words filenames are made of here, the last one a date in a file name
FilenameWords ==
    << <<"D", "R", "A", "F", "T", "0", "2", " ", "2", "4", "1", "1", "1",
         "6">>,
       <<"F", "i", "n", "a", "l">>,
       <<"P", "r", "i", "n", "t", " ", "R", "e", "a", "d", "y">>,
       <<"b", "o", "x">>,
       <<"A", "R", "T", "M", "0", "3", "Y", "2", "5", ".", "p", "s", "d">> >>

Filenames == Phrases(FilenameWords, MaxContext, <<" ">>)

InitConfidence ==
    /\ PoolUnused
    /\ SaversUnused
    /\ SaveIdle
    /\ LoadUnused
    /\ ScanUnused
    /\ arg \in [pattern_type : PatternTypes, filename : Filenames]
    /\ ret = [done |-> FALSE, value |-> 0]

\* the call in extract_filename_dates:
\* _calculate_confidence(pattern_type, match.group(0), filename_lower)
CalculateConfidence ==
    /\ ~ret.done
    /\ ret' = [done |-> TRUE,
               value |-> calculate_confidence(arg.pattern_type, <<>>,
                                              lower(arg.filename))]
    /\ UNCHANGED arg
    /\ UNCHANGED notAnalysis

NextConfidence ==
    \/ CalculateConfidence

SpecConfidence == InitConfidence /\ [][NextConfidence]_vars

(***************************************************************************)
(* Claims about _calculate_confidence.                                     *)
(***************************************************************************)
\* C20: every confidence computed for a date extracted from a filename, for
\* every pattern type and every combination of the draft / final / print
\* ready boosts, is at most 0.6.
C20_ConfidenceAtMostSixTenths ==
    ret.done => ret.value <= 60

\* C20 witness: a draft_date in a filename with "draft" and "final", whose
\* base and boosts add up to 0.65, got the confidence 0.6.
C20_Witness ==
    /\ ret.done
    /\ arg.pattern_type = "draft_date"
    /\ Contains(lower(arg.filename), <<"d", "r", "a", "f", "t">>)
    /\ Contains(lower(arg.filename), <<"f", "i", "n", "a", "l">>)
    /\ ret.value = 60

(***************************************************************************)
(* TemporalAnalyzer.analyze_file_activity: the activity score and the      *)
(* recent-work flag of one file.  Scores are in ten-thousandths (0.4 is    *)
(* 4000, 0.05 * 0.6 is 300); confidences stay in hundredths.               *)
(***************************************************************************)
\* file sizes in bytes, on both sides of every threshold of the two functions
FileSizes ==
    {0, 102400, 102401, 512000, 512001, 1048576, 1048577, 10485760,
     10485761, 52428800, 52428801}

\* (datetime.now() - modified_time).days; negative for a time in the future
DaysSinceModified == {-30, -1, 0, 1, 2, 3, 6, 7, 13, 14, 29, 30, 89, 90}

\* (datetime.now() - project_datetime).days of the best filename date
DaysSinceProjectDate == {0, 29, 30}

\* files, each with the type of the first date of extract_filename_dates
ActivityFiles ==
    { [file_path |-> <<"/", "P", "r", "i", "n", "t", " ", "R", "e", "a",
                      "d", "y", "/", "b", "o", "x", ".", "p", "s", "d">>,
        best |-> "none"],
      [file_path |-> <<"/", "D", "r", "a", "f", "t", "s", "/", "b", "o",
                      "x", " ", "D", "R", "A", "F", "T", "0", "2", " ", "2",
                      "4", "1", "1", "1", "6", ".", "p", "s", "d">>,
        best |-> "draft_date"],
      [file_path |-> <<"/", "O", "l", "d", "/", "l", "a", "b", "e", "l",
                      " ", "A", "R", "T", "M", "0", "3", "Y", "2", "5", ".",
                      "p", "d", "f">>,
        best |-> "art_date"],
      [file_path |-> <<"/", "A", "r", "c", "h", "i", "v", "e", "/", "a",
                      ".", "p", "n", "g">>,
        best |-> "none"],
      [file_path |-> <<"/", "n", "o", "t", "e", "s", ".", "t", "x", "t">>,
        best |-> "none"],
      [file_path |-> <<"/", "b", "o", "x", " ", "A", "R", "T", "M", "0",
                      "3", "Y", "2", "5", " ", "d", "r", "a", "f", "t", " ",
                      "f", "i", "n", "a", "l", ".", "a", "i">>,
        best |-> "art_date"],
      [file_path |-> <<"/", "W", "o", "r", "k", " ", "i", "n", " ", "P",
                      "r", "o", "g", "r", "e", "s", "s", "/", "2", "0", "2",
                      "4", "-", "0", "3", "-", "1", "5", ".", "i", "n", "d",
                      "d">>,
        best |-> "iso_date"],
      [file_path |-> <<"/", "F", "i", "n", "a", "l", "/", "a", ".", "j",
                      "p", "g">>,
        best |-> "none"] }

\* the name of a file: what follows the last "/" of its path
file_name(file_path) ==
    SubSeq(file_path, last_index(file_path, "/") + 1, Len(file_path))

\* dates[0]['confidence'] of get_best_project_date, 0 when there is no date
best_confidence(f) ==
    IF f.best = "none" THEN 0
    ELSE calculate_confidence(f.best, <<>>, lower(file_name(f.file_path)))

\* the score before min(score, 1.0)
activity_score_uncapped(st_size, days_since_modified, file_path, confidences) ==
    LET ext == lower(suffix(file_name(file_path)))
        path_str == lower(file_path)
        by_size == IF st_size > 50 * 1024 * 1024 THEN 4000
                   ELSE IF st_size > 10 * 1024 * 1024 THEN 3000
                   ELSE IF st_size > 1024 * 1024 THEN 2000
                   ELSE IF st_size > 100 * 1024 THEN 1000
                   ELSE 0
        by_age == IF days_since_modified < 3 THEN 4000
                  ELSE IF days_since_modified < 7 THEN 3000
                  ELSE IF days_since_modified < 30 THEN 2000
                  ELSE IF days_since_modified < 90 THEN 1000
                  ELSE 0
        by_type == IF ext \in {<<".", "p", "s", "d">>, <<".", "a", "i">>, <<".", "i", "n", "d", "d">>} THEN 3000
                   ELSE IF ext = <<".", "p", "d", "f">> THEN 2000
                   ELSE IF ext \in {<<".", "p", "n", "g">>, <<".", "j", "p", "g">>, <<".", "j", "p", "e", "g">>} THEN 1000
                   ELSE 0
        score == by_size + by_age + by_type
        in_context ==
            IF \/ Contains(path_str, print_ready)
               \/ Contains(path_str, <<"f", "i", "n", "a", "l">>)
                THEN score + 2000
            ELSE IF \/ Contains(path_str, <<"d", "r", "a", "f", "t">>)
                    \/ Contains(path_str, <<"w", "o", "r", "k", " ", "i", "n", " ", "p", "r", "o", "g", "r", "e", "s", "s">>)
                THEN score + 1500
            ELSE IF \/ Contains(path_str, <<"o", "l", "d">>)
                    \/ Contains(path_str, <<"a", "r", "c", "h", "i", "v", "e">>)
                    \/ Contains(path_str, <<"b", "a", "c", "k", "u", "p">>)
                THEN score \div 2
            ELSE score
    IN  IF confidences # <<>> THEN in_context + 5 * confidences[1]
        ELSE in_context

\* a score that is returned as it was added up
calculate_activity_score_uncapped(st_size, days_since_modified, file_path, confidences) ==
    activity_score_uncapped(st_size, days_since_modified, file_path, confidences)

\* _calculate_activity_score(stat, filename_dates, modified_time, file_path)
calculate_activity_score(st_size, days_since_modified, file_path, confidences) ==
    LET score == activity_score_uncapped(st_size, days_since_modified,
                                         file_path, confidences)
    IN  IF score < 10000 THEN score ELSE 10000

\* _is_recent_work(modified_time, project_date, file_size).  project_date is
\* the confidence of the best filename date, 0 for None.  Its 'date' is the
\* datetime of _parse_date_match, so project_date['date'].replace('Z',
\* '+00:00') raises a TypeError, which except (ValueError, KeyError) lets
\* through.
is_recent_work(days_since_modified, project_date, file_size) ==
    IF file_size > 10 * 1024 * 1024 /\ days_since_modified < 7
        THEN [raised |-> FALSE, value |-> TRUE]
    ELSE IF file_size > 1024 * 1024 /\ days_since_modified < 3
        THEN [raised |-> FALSE, value |-> TRUE]
    ELSE IF file_size > 100 * 1024 /\ days_since_modified < 1
        THEN [raised |-> FALSE, value |-> TRUE]
    ELSE IF project_date # 0 /\ project_date > 50
        THEN [raised |-> TRUE, value |-> FALSE]
    ELSE [raised |-> FALSE, value |-> FALSE]

InitActivity ==
    /\ PoolUnused
    /\ SaversUnused
    /\ SaveIdle
    /\ LoadUnused
    /\ ScanUnused
    /\ arg \in [st_size : FileSizes, days_since_modified : DaysSinceModified,
                days_since_project_date : DaysSinceProjectDate,
                file : ActivityFiles]
    /\ ret = [done |-> FALSE, raised |-> FALSE, activity_score |-> 0,
              is_recent_work |-> FALSE]

\* analyze_file_activity(file_path): the score is computed first, the flag
\* while the result is built; except (OSError, ValueError) does not catch
\* the TypeError of _is_recent_work
AnalyzeFileActivity ==
    /\ ~ret.done
    /\ LET confidence == best_confidence(arg.file)
           recent == is_recent_work(arg.days_since_modified, confidence,
                                    arg.st_size)
       IN  ret' = [done |-> TRUE,
                   raised |-> recent.raised,
                   activity_score |->
                       calculate_activity_score(
                           arg.st_size, arg.days_since_modified,
                           arg.file.file_path,
                           IF confidence = 0 THEN <<>> ELSE <<confidence>>),
                   is_recent_work |-> recent.value]
    /\ UNCHANGED arg
    /\ UNCHANGED notAnalysis

NextActivity ==
    \/ AnalyzeFileActivity

SpecActivity == InitActivity /\ [][NextActivity]_vars

(***************************************************************************)
(* Claims about the activity score and the recent-work flag.               *)
(***************************************************************************)
\* C21: for any file size, file age (a modification time in the future
\* included), extension, directory context and filename-date confidence,
\* the activity score is at least 0.0 and at most 1.0.
C21_ActivityScoreInUnitInterval ==
    ret.done => (0 <= ret.activity_score /\ ret.activity_score <= 10000)

\* C21 witness: a source file of more than 50MB in a print ready directory,
\* modified in the future, whose parts add up to more than 1.0, got 1.0.
C21_Witness ==
    /\ ret.done
    /\ arg.st_size > 50 * 1024 * 1024
    /\ arg.days_since_modified < 0
    /\ Contains(lower(arg.file.file_path), print_ready)
    /\ ret.activity_score = 10000

\* C22: the recent-work flag of a file is a boolean, never an error, and it
\* is true exactly when the file is larger than 10MB and younger than 7
\* days, or larger than 1MB and younger than 3 days, or larger than 100KB
\* and younger than 1 day, or its best filename date has a confidence above
\* 0.5, is less than 30 days old, the file is younger than 14 days and
\* larger than 500KB.
C22_RecentWorkFlag ==
    ret.done =>
        /\ ~ret.raised
        /\ ret.is_recent_work <=>
              \/ arg.st_size > 10 * 1024 * 1024 /\ arg.days_since_modified < 7
              \/ arg.st_size > 1024 * 1024 /\ arg.days_since_modified < 3
              \/ arg.st_size > 100 * 1024 /\ arg.days_since_modified < 1
              \/ /\ best_confidence(arg.file) > 50
                 /\ arg.days_since_project_date < 30
                 /\ arg.days_since_modified < 14
                 /\ arg.st_size > 500 * 1024

\* C23: the scan counters are written through one synchronization point, so
\* that no update is lost: whenever files_scanned changes, a task that was
\* adding its file count has finished the addition, and the counter has
\* grown by exactly that file count.
C23_NoLostUpdate ==
    [][stats'.files_scanned # stats.files_scanned =>
          \E d \in DOMAIN tasks :
             /\ tasks[d].st = "adding"
             /\ tasks'[d].st = "done"
             /\ stats'.files_scanned = stats.files_scanned + tasks[d].files]_vars

(***************************************************************************)
(* The worker pool of a scan.  scan_multiple_directories goes through its  *)
(* roots one after the other; _scan_single_directory opens a               *)
(* ThreadPoolExecutor(max_workers=CONCURRENT_THREADS) for the root,        *)
(* submits one task per product directory, collects them with              *)
(* as_completed and leaves the `with` block, which waits for the pool.     *)
(* scan_directory, once it has listed its source directory (it raises     *)
(* before anything is submitted otherwise), is the same with one root.     *)
(* A future is "queued" (submitted, no worker has taken it), "running" (a  *)
(* worker is inside _process_product_directory), "finished" (it returned;  *)
(* the function catches every Exception itself) or "collected"             *)
(* (as_completed yielded it).                                              *)
(***************************************************************************)
running == {d \in DOMAIN queue : queue[d] = "running"}

InitPool ==
    /\ SaveIdle
    /\ LoadUnused
    /\ ScanUnused
    /\ AnalysisUnused
    /\ SaversUnused
    /\ ppc = "roots"
    /\ todo \in 0..MaxRoots
    /\ queue = <<>>
    /\ metas = 0

\* the next entry of `directories` is an unknown key or a missing directory,
\* or its listing raises: nothing is submitted for it
SkipRoot ==
    /\ ppc = "roots"
    /\ todo > 0
    /\ todo' = todo - 1
    /\ UNCHANGED <<ppc, queue, metas>>
    /\ UNCHANGED notPool

\* _scan_single_directory: a new executor, one submit per product directory
SubmitAll ==
    /\ ppc = "roots"
    /\ todo > 0
    /\ todo' = todo - 1
    /\ \E n \in 0..MaxTasks : queue' = [d \in 1..n |-> "queued"]
    /\ ppc' = "pool"
    /\ UNCHANGED metas
    /\ UNCHANGED notPool

\* a pool that starts a thread for every task it is given
StartTaskUnbounded(d) ==
    /\ d \in DOMAIN queue
    /\ queue[d] = "queued"
    /\ \A e \in 1..(d - 1) : queue[e] # "queued"
    /\ queue' = [queue EXCEPT ![d] = "running"]
    /\ UNCHANGED <<ppc, todo, metas>>
    /\ UNCHANGED notPool

\* a worker of the executor takes the oldest queued task; the executor has
\* at most max_workers workers and each runs one task at a time
StartTask(d) ==
    /\ d \in DOMAIN queue
    /\ queue[d] = "queued"
    /\ \A e \in 1..(d - 1) : queue[e] # "queued"
    /\ Cardinality(running) < CONCURRENT_THREADS
    /\ queue' = [queue EXCEPT ![d] = "running"]
    /\ UNCHANGED <<ppc, todo, metas>>
    /\ UNCHANGED notPool

\* _process_product_directory returns (a ProductInfo or None)
FinishTask(d) ==
    /\ d \in DOMAIN queue
    /\ queue[d] = "running"
    /\ queue' = [queue EXCEPT ![d] = "finished"]
    /\ UNCHANGED <<ppc, todo, metas>>
    /\ UNCHANGED notPool

\* as_completed yields the future and the loop body handles its result
CollectTask(d) ==
    /\ ppc = "pool"
    /\ d \in DOMAIN queue
    /\ queue[d] = "finished"
    /\ queue' = [queue EXCEPT ![d] = "collected"]
    /\ UNCHANGED <<ppc, todo, metas>>
    /\ UNCHANGED notPool

\* as_completed is exhausted and the `with` block is left
LeavePool ==
    /\ ppc = "pool"
    /\ \A d \in DOMAIN queue : queue[d] = "collected"
    /\ ppc' = "roots"
    /\ UNCHANGED <<todo, queue, metas>>
    /\ UNCHANGED notPool

\* a scan that takes its counts whenever it is between two steps
ComputeMetadataAnytime ==
    /\ ppc \in {"roots", "pool"}
    /\ metas' = metas + 1
    /\ ppc' = "done"
    /\ UNCHANGED <<todo, queue>>
    /\ UNCHANGED notPool

\* the loop over `directories` is over: ScanMetadata(...) is built and the
\* index is returned
ComputeMetadata ==
    /\ ppc = "roots"
    /\ todo = 0
    /\ metas' = metas + 1
    /\ ppc' = "done"
    /\ UNCHANGED <<todo, queue>>
    /\ UNCHANGED notPool

NextPool ==
    \/ SkipRoot
    \/ SubmitAll
    \/ \E d \in 1..MaxTasks : StartTask(d)
    \/ \E d \in 1..MaxTasks : FinishTask(d)
    \/ \E d \in 1..MaxTasks : CollectTask(d)
    \/ LeavePool
    \/ ComputeMetadata

SpecPool == InitPool /\ [][NextPool]_vars

\* the scanning thread and every worker thread keep being scheduled, and the
\* file system calls of a task return
SpecPoolFair ==
    /\ SpecPool
    /\ WF_vars(SkipRoot \/ SubmitAll \/ LeavePool \/ ComputeMetadata)
    /\ \A d \in 1..MaxTasks :
          /\ WF_vars(StartTask(d))
          /\ WF_vars(FinishTask(d))
          /\ WF_vars(CollectTask(d))

(***************************************************************************)
(* Claims about the worker pool.                                           *)
(***************************************************************************)
\* C24: at every moment of a scan the number of product-directory scans in
\* flight (started and not finished) is at most CONCURRENT_THREADS, across
\* all roots of a multi-root scan.
C24_InFlightBounded ==
    Cardinality(running) <= CONCURRENT_THREADS

\* C24 witness: CONCURRENT_THREADS scans are in flight and a submitted task
\* is waiting for a worker.
C24_Witness ==
    /\ Cardinality(running) = CONCURRENT_THREADS
    /\ \E d \in DOMAIN queue : queue[d] = "queued"

\* C25: a scan runs to completion: every submitted task eventually resolves,
\* and the metadata is computed exactly once, only after all submitted tasks
\* of all roots have resolved and been collected, and no task changes state
\* after it.
C25_RunsToCompletion ==
    /\ \A d \in 1..MaxTasks :
          (d \in DOMAIN queue /\ queue[d] = "queued")
              ~> (d \in DOMAIN queue /\ queue[d] \in {"finished", "collected"})
    /\ <>(ppc = "done" /\ metas = 1)
    /\ [][metas' # metas =>
             /\ metas = 0
             /\ todo = 0
             /\ \A d \in DOMAIN queue : queue[d] = "collected"]_vars
    /\ [][metas > 0 => queue' = queue /\ metas' = metas]_vars

\* C25 witness: the metadata has been computed once, after the last root's
\* pool of MaxTasks tasks was collected.
C25_Witness ==
    /\ ppc = "done"
    /\ metas = 1
    /\ Len(queue) >= MaxTasks
    /\ \A d \in DOMAIN queue : queue[d] = "collected"

(***************************************************************************)
(* AssetIndex.create_grouped_version, for an index of one product whose    *)
(* assets were classified by FileAnalyzer.classify_asset.  An asset is the *)
(* AssetInfo of a file below the product directory; relative_path tells    *)
(* two files of the same name apart.                                       *)
(***************************************************************************)
\* the folders below a product directory and the file names in them
GroupedFolders ==
    << <<"M", "o", "c", "k", "u", "p", "s">>,
       <<"O", "l", "d", " ", "M", "o", "c", "k", "-", "u", "p", "s">>,
       <<"P", "r", "i", "n", "t", " ", "R", "e", "a", "d", "y">> >>

GroupedNames ==
    << <<"W", "i", "d", "g", "e", "t", ".", "p", "n", "g">>,
       <<"W", "i", "d", "g", "e", "t", ".", "j", "p", "g">>,
       <<"G", "a", "d", "g", "e", "t", ".", "p", "n", "g">> >>

\* AssetInfo.from_file(file_path, directory, asset_type, is_current) for
\* directory / folder / name
AssetInfoFromFile(folder, name) ==
    [name |-> name,
     type |-> classify_asset(<<<<"1", "2", "3", "4", "5", " ", "W", "i", "d", "g", "e", "t">>, folder, name>>).asset_type,
     extension |-> lower(suffix(name)),
     relative_path |-> folder \o <<"/">> \o name]

\* the assets of a product: files with different relative paths, in any order
ProductAssets ==
    LET files == {AssetInfoFromFile(GroupedFolders[f], GroupedNames[n]) :
                     f \in DOMAIN GroupedFolders, n \in DOMAIN GroupedNames}
    IN  {a \in UNION {[1..n -> files] : n \in 0..MaxAssets} :
            \A i, j \in DOMAIN a : i # j => a[i] # a[j]}

\* create_grouped_version for the index of one product with these assets:
\* the metadata is self.metadata, the product's assets are the assets whose
\* name is not the name of a grouped asset, and the groups are stored beside
\* them
create_grouped_version(assets) ==
    LET mockup_groups == group_3d_mockups(assets)
        grouped_asset_names ==
            UNION {{mockup_groups[g].related_assets[k].name :
                       k \in DOMAIN mockup_groups[g].related_assets} :
                   g \in DOMAIN mockup_groups}
    IN  [metadata |-> [total_products |-> 1, total_assets |-> Len(assets)],
         assets |-> SelectSeq(assets,
                              LAMBDA a : a.name \notin grouped_asset_names),
         grouped_assets |-> mockup_groups]

InitGrouped ==
    /\ PoolUnused
    /\ SaversUnused
    /\ SaveIdle
    /\ LoadUnused
    /\ ScanUnused
    /\ arg \in ProductAssets
    /\ ret = [done |-> FALSE, value |-> <<>>]

CreateGroupedVersion ==
    /\ ~ret.done
    /\ ret' = [done |-> TRUE, value |-> create_grouped_version(arg)]
    /\ UNCHANGED arg
    /\ UNCHANGED notAnalysis

NextGrouped ==
    \/ CreateGroupedVersion

SpecGrouped == InitGrouped /\ [][NextGrouped]_vars

(***************************************************************************)
(* Claims about create_grouped_version.                                    *)
(***************************************************************************)
\* C26: every asset of the original product appears in the grouped version
\* exactly once, in the product's assets or as a member of exactly one of
\* its groups, also when two assets of the product have the same file name.
C26_EveryAssetOnce ==
    ret.done =>
        \A i \in DOMAIN arg :
            LET kept == {k \in DOMAIN ret.value.assets :
                            ret.value.assets[k] = arg[i]}
                member == {<<g, k>> \in (DOMAIN ret.value.grouped_assets)
                                            \X (1..MaxAssets) :
                              /\ k \in DOMAIN ret.value.grouped_assets[g].related_assets
                              /\ ret.value.grouped_assets[g].related_assets[k] = arg[i]}
            IN  Cardinality(kept) + Cardinality(member) = 1

\* C27: in the index create_grouped_version returns, metadata.total_products
\* is the number of products and metadata.total_assets is the sum of
\* len(product.assets) over the products.
C27_GroupedIndexTotals ==
    ret.done =>
        /\ ret.value.metadata.total_products = 1
        /\ ret.value.metadata.total_assets = Len(ret.value.assets)

(***************************************************************************)
(* classify_asset as _process_product_directory calls it: on the absolute  *)
(* path of a file below a product directory, which lies in a scan root     *)
(* (settings.SCAN_DIRECTORIES) below the base directory of the scanner.    *)
(***************************************************************************)
\* base directories: settings.DEFAULT_ASSET_BASE and two other places
BaseDirs ==
    { <<<<"U", "s", "e", "r", "s">>,
        <<"M", "K", "T", "G", "0", "1", "8">>,
        <<"L", "i", "b", "r", "a", "r", "y">>,
        <<"C", "l", "o", "u", "d", "S", "t", "o", "r", "a", "g", "e">>,
        <<"O", "n", "e", "D", "r", "i", "v", "e", "-", "V", "i", "t", "a", "l", "P", "l", "a", "n", "e", "t">>,
        <<"V", "i", "t", "a", "l", " ", "P", "l", "a", "n", "e", "t", " ", "A", "r", "t">>,
        <<"P", "a", "c", "k", "a", "g", "i", "n", "g">>, <<"V", "P", " ", "P", "A", "C", "K", "A", "G", "I", "N", "G">>>>,
      <<<<"s", "r", "v">>, <<"a", "s", "s", "e", "t", "s">>>>,
      <<<<"m", "n", "t">>, <<"A", "r", "c", "h", "i", "v", "e">>>> }

\* the values of settings.SCAN_DIRECTORIES
ScanRoots ==
    { <<<<"H", "u", "m", "a", "n">>, <<"C", "u", "r", "r", "e", "n", "t">>>>,
      <<<<"H", "u", "m", "a", "n">>, <<"W", "o", "r", "k", " ", "i", "n", " ", "P", "r", "o", "g", "r", "e", "s", "s">>>>,
      <<<<"P", "e", "t">>, <<"C", "u", "r", "r", "e", "n", "t">>>>,
      <<<<"P", "e", "t">>, <<"W", "o", "r", "k", " ", "i", "n", " ", "P", "r", "o", "g", "r", "e", "s", "s">>>> }

\* a product directory and the files below it, at most one folder deep
FilesBelowProduct ==
    {<<<<"1", "2", "3", "4", "5", " ", "W", "i", "d", "g", "e", "t">>>> \o dirs \o <<FileNames[f]>> :
        dirs \in {<<>>} \cup {<<DirectoryNames[d]>> : d \in DOMAIN DirectoryNames},
        f \in DOMAIN FileNames}

InitUnder ==
    /\ PoolUnused
    /\ SaversUnused
    /\ SaveIdle
    /\ LoadUnused
    /\ ScanUnused
    /\ arg \in [base_dir : BaseDirs, root : ScanRoots, below : FilesBelowProduct]
    /\ ret = [done |-> FALSE,
              value |-> [asset_type |-> "", is_current |-> FALSE]]

\* self.analyzer.classify_asset(file_path, directory) for a file_path of
\* directory.rglob('*'), directory being base_dir / root / product folder
ClassifyUnder ==
    /\ ~ret.done
    /\ ret' = [done |-> TRUE,
               value |-> classify_asset(arg.base_dir \o arg.root \o arg.below)]
    /\ UNCHANGED arg
    /\ UNCHANGED notAnalysis

NextUnder ==
    \/ ClassifyUnder

SpecUnder == InitUnder /\ [][NextUnder]_vars

\* C28: classify_asset depends only on the product folder and what lies
\* below it: a file with the same product folder and the same path below it,
\* whose absolute path differs only in the directories above the product
\* folder, gets the same (asset_type, is_current).
C28_SameBelowSameClass ==
    ret.done =>
        \A base_dir \in BaseDirs : \A root \in ScanRoots :
            classify_asset(base_dir \o root \o arg.below) = ret.value

(***************************************************************************)
(* Two scan requests of the HTTP layer (app.run(threaded=True), one thread *)
(* per request, no lock) that reach save_index on the same output path at  *)
(* the same time.  The files and the clock are those of SpecSave; each     *)
(* request has its own position, backup name and index (the index of       *)
(* request p is document p).  The output file starts absent or holding an  *)
(* earlier index, with no backups or with four.  A file that two requests  *)
(* had open for writing at the same time may end up "mixed": bytes of both *)
(* documents.  I/O failures are left to SpecSave.                          *)
(***************************************************************************)
Requests == {1, 2}

\* the variables of the single caller of SpecSave, which stay as they are
oneCaller == <<spc, sidx, sprior, sname, sbacked, ncalls, nfailed>>

notSavers == <<loadVars, scanVars, analysisVars, poolVars>>

InitSavers ==
    /\ PoolUnused
    /\ LoadUnused
    /\ ScanUnused
    /\ AnalysisUnused
    /\ spc = "idle"
    /\ sidx = 0
    /\ sprior = NoFile
    /\ sname = 0
    /\ sbacked = FALSE
    /\ ncalls = 0
    /\ nfailed = 0
    /\ \E k \in {0, max_backups - 1} :
          /\ now = k
          /\ mclock = k + 1
          /\ backups = [n \in Seconds |->
                          IF n < k
                          THEN [doc |-> 4 + n, part |-> "full", mtime |-> n + 1]
                          ELSE NoFile]
          /\ primary \in {[doc |-> 3, part |-> "full", mtime |-> k + 1]}
                            \cup (IF k = 0 THEN {NoFile} ELSE {})
    /\ cpc = [p \in Requests |-> "idle"]
    /\ cname = [p \in Requests |-> 0]
    /\ dirty = [p \in Requests |-> FALSE]

\* save_index of request p is called: output_path.exists(), the timestamp
SaveBeginBy(p) ==
    /\ cpc[p] = "idle"
    /\ cname' = [cname EXCEPT ![p] = now]
    /\ cpc' = [cpc EXCEPT ![p] = IF Exists(primary) THEN "backup" ELSE "open"]
    /\ UNCHANGED <<now, mclock, primary, backups, dirty>>
    /\ UNCHANGED oneCaller
    /\ UNCHANGED notSavers

\* shutil.copy2(output_path, backup_path): what is in the output file now
BackupCopyBy(p) ==
    /\ cpc[p] = "backup"
    /\ backups' = [backups EXCEPT ![cname[p]] = primary]
    /\ cpc' = [cpc EXCEPT ![p] = "cleanup"]
    /\ UNCHANGED <<now, mclock, primary, cname, dirty>>
    /\ UNCHANGED oneCaller
    /\ UNCHANGED notSavers

\* _cleanup_old_backups(backup_dir)
CleanupOldBackupsBy(p) ==
    /\ cpc[p] = "cleanup"
    /\ IF Cardinality(backup_files) > max_backups
       THEN \E K \in SUBSET backup_files :
               /\ KeptByCleanup(K)
               /\ backups' = [n \in Seconds |->
                                IF n \in K THEN backups[n] ELSE NoFile]
       ELSE UNCHANGED backups
    /\ cpc' = [cpc EXCEPT ![p] = "open"]
    /\ UNCHANGED <<now, mclock, primary, cname, dirty>>
    /\ UNCHANGED oneCaller
    /\ UNCHANGED notSavers

\* save_to_file: open(file_path, 'w') truncates the file in place, also
\* when another request is writing it
OpenForWritingBy(p) ==
    /\ cpc[p] = "open"
    /\ mclock' = mclock + 1
    /\ primary' = [doc |-> p, part |-> "partial", mtime |-> mclock + 1]
    /\ dirty' = IF \E q \in Requests : cpc[q] = "write"
                THEN [q \in Requests |-> TRUE]
                ELSE dirty
    /\ cpc' = [cpc EXCEPT ![p] = "write"]
    /\ UNCHANGED <<now, backups, cname>>
    /\ UNCHANGED oneCaller
    /\ UNCHANGED notSavers

\* json.dump and the close of the file: the document of p, whole when no
\* other request had the file open meanwhile; otherwise the bytes of p lie
\* over or between those of the other request, which gives the whole
\* document or a mixture
WriteDoneBy(p) ==
    /\ cpc[p] = "write"
    /\ mclock' = mclock + 1
    /\ \E part \in (IF dirty[p] THEN {"full", "mixed"} ELSE {"full"}) :
          primary' = [doc |-> p, part |-> part, mtime |-> mclock + 1]
    /\ cpc' = [cpc EXCEPT ![p] = "returned"]
    /\ UNCHANGED <<now, backups, cname, dirty>>
    /\ UNCHANGED oneCaller
    /\ UNCHANGED notSavers

NextSavers ==
    \/ Tick
    \/ \E p \in Requests : SaveBeginBy(p)
    \/ \E p \in Requests : BackupCopyBy(p)
    \/ \E p \in Requests : CleanupOldBackupsBy(p)
    \/ \E p \in Requests : OpenForWritingBy(p)
    \/ \E p \in Requests : WriteDoneBy(p)

SpecSavers == InitSavers /\ [][NextSavers]_vars

\* C30: when two scan-and-save requests run concurrently on one output
\* path, under every interleaving of their backup, prune and write steps
\* the primary file ends up holding the complete serialization of one of
\* the two indexes, and every backup file holds the complete content of some
\* earlier index.
C30_ConcurrentSavesKeepFilesWhole ==
    (\A p \in Requests : cpc[p] = "returned") =>
        /\ primary.part = "full"
        /\ primary.doc \in Requests
        /\ \A n \in backup_files : backups[n].part = "full"

====
